---- MODULE Spec2Model ----
(***************************************************************************)
(* Verification model of the technology-stack evaluation engine            *)
(* (dev-tech_stack_evaluator): StackComparator, TCOCalculator,             *)
(* MigrationAnalyzer, SecurityAssessor, EcosystemAnalyzer, ReportGenerator *)
(* and FormatDetector, and of the TDDWorkflow of dev-tdd_guide.            *)
(*                                                                         *)
(* Numbers are exact rationals [n, d] (d > 0, lowest terms); Python dicts  *)
(* are insertion-ordered sequences of <<key, value>> pairs, because sort   *)
(* stability and max() tie-breaking in the code depend on that order.      *)
(* An exception leaving a public method is recorded in `raised`.           *)
(***************************************************************************)
EXTENDS Integers, Sequences, FiniteSets, TLC

VARIABLES
    pc,               \* position of the caller: which public method ran last
    raised,           \* exception that crossed the component boundary, or "none"
    comparison_data,  \* StackComparator.__init__ argument
    use_case,         \* StackComparator.use_case
    weights,          \* StackComparator.weights
    tech_data_list,   \* argument of compare_technologies
    results,          \* value returned by compare_technologies
    tco_data,         \* TCOCalculator.__init__ argument
    tco_self,         \* the TCOCalculator object's fields
    tco_result,       \* value returned by the last TCOCalculator method
    migration_data,   \* MigrationAnalyzer.__init__ argument
    mig_self,         \* the MigrationAnalyzer object's fields
    mig_result,       \* value returned by the last MigrationAnalyzer method
    security_data,    \* SecurityAssessor.__init__ argument
    sec_self,         \* the SecurityAssessor object's fields
    sec_result,       \* value returned by the last SecurityAssessor method
    ecosystem_data,   \* EcosystemAnalyzer.__init__ argument
    eco_self,         \* the EcosystemAnalyzer object's fields
    eco_result,       \* value returned by the last EcosystemAnalyzer method
    report_data,      \* ReportGenerator.__init__ argument
    output_context,   \* ReportGenerator.__init__ argument (None is the empty tuple)
    rep_env,          \* what os.getenv('CLAUDE_DESKTOP') and os.isatty(1) answer
    rep_now,          \* the clock datetime.now() reads, in minutes of the day
    rep_self,         \* the ReportGenerator object's fields
    rep_sections,     \* sections argument of the last report call
    rep_result,       \* value returned by the last ReportGenerator method
    rep_file,         \* the file export_to_file wrote last
    fmt_input,        \* FormatDetector.__init__ argument
    fmt_self,         \* the FormatDetector object's fields
    fmt_result,       \* value returned by the last FormatDetector method
    tdd_self,         \* the TDDWorkflow object's fields
    tdd_cycle,        \* history variable: validations passed since the latest start_cycle
    tdd_result        \* value returned by the last TDDWorkflow method

cmpVars == <<comparison_data, use_case, weights, tech_data_list, results>>
tcoVars == <<tco_data, tco_self, tco_result>>
migVars == <<migration_data, mig_self, mig_result>>
secVars == <<security_data, sec_self, sec_result>>
ecoVars == <<ecosystem_data, eco_self, eco_result>>
repVars == <<report_data, output_context, rep_env, rep_now, rep_self, rep_sections,
            rep_result, rep_file>>
fmtVars == <<fmt_input, fmt_self, fmt_result>>
tddVars == <<tdd_self, tdd_cycle, tdd_result>>
extVars == <<repVars, fmtVars, tddVars>>
vars == <<pc, raised, cmpVars, tcoVars, migVars, secVars, ecoVars, extVars>>

(***************************************************************************)
(* Bounds of the model.                                                    *)
(***************************************************************************)
MaxTechs == 3
MaxYears == 3

(***************************************************************************)
(* Exact rational arithmetic.                                              *)
(***************************************************************************)
Abs(x) == IF x < 0 THEN -x ELSE x

RECURSIVE GCD(_, _)
GCD(a, b) == IF b = 0 THEN a ELSE GCD(b, a % b)

Rat(n, d) ==
    LET g == GCD(Abs(n), Abs(d))
        s == IF d < 0 THEN -1 ELSE 1
    IN  [n |-> (s * n) \div g, d |-> (s * d) \div g]

R(i) == [n |-> i, d |-> 1]
RAdd(a, b) == Rat(a.n * b.d + b.n * a.d, a.d * b.d)
RSub(a, b) == Rat(a.n * b.d - b.n * a.d, a.d * b.d)
RMul(a, b) == Rat(a.n * b.n, a.d * b.d)
RDiv(a, b) == Rat(a.n * b.d, a.d * b.n)
RLt(a, b) == a.n * b.d < b.n * a.d
RLe(a, b) == a.n * b.d <= b.n * a.d
RMin(a, b) == IF RLt(b, a) THEN b ELSE a
RMax(a, b) == IF RLt(a, b) THEN b ELSE a

RECURSIVE RSum(_)
RSum(s) == IF s = <<>> THEN R(0) ELSE RAdd(Head(s), RSum(Tail(s)))

(***************************************************************************)
(* Insertion-ordered dictionaries: sequences of <<key, value>> pairs.      *)
(***************************************************************************)
Keys(d) == {d[i][1] : i \in DOMAIN d}
Has(d, k) == k \in Keys(d)
Get(d, k, default) ==
    IF Has(d, k) THEN d[CHOOSE i \in DOMAIN d : d[i][1] = k][2] ELSE default
Put(d, k, v) ==
    IF Has(d, k)
    THEN [i \in DOMAIN d |-> IF d[i][1] = k THEN <<k, v>> ELSE d[i]]
    ELSE Append(d, <<k, v>>)

RECURSIVE Update(_, _)
Update(d, c) ==
    IF c = <<>> THEN d ELSE Update(Put(d, Head(c)[1], Head(c)[2]), Tail(c))

Values(d) == [i \in DOMAIN d |-> d[i][2]]

\* sorted(items, key, reverse=True): descending and stable, i.e. equal keys
\* stay in their original order.  keys[i] is the rational key of items[i].
Without(s, i) == [k \in 1..(Len(s) - 1) |-> IF k < i THEN s[k] ELSE s[k + 1]]

RECURSIVE SortedDesc(_, _)
SortedDesc(items, keys) ==
    IF items = <<>> THEN <<>>
    ELSE LET i == CHOOSE j \in DOMAIN items :
                      /\ \A k \in DOMAIN items : RLe(keys[k], keys[j])
                      /\ \A k \in 1..(j - 1) : RLt(keys[k], keys[j])
         IN  <<items[i]>> \o SortedDesc(Without(items, i), Without(keys, i))

\* max(items, key): the first item holding the largest key.
MaxFirst(items, keys) == SortedDesc(items, keys)[1]

\* f"{x:.1f}": the value rounded to one decimal (half to even), in tenths.
Format1(x) ==
    LET t == x.n * 10
        q == t \div x.d
        r == t - q * x.d
    IN  IF 2 * r < x.d THEN q
        ELSE IF 2 * r > x.d THEN q + 1
        ELSE IF q % 2 = 0 THEN q ELSE q + 1

(***************************************************************************)
(* StackComparator                                                         *)
(***************************************************************************)
FEATURE_CATEGORIES ==
    << "performance", "scalability", "developer_experience", "ecosystem",
       "learning_curve", "documentation", "community_support",
       "enterprise_readiness" >>

DEFAULT_WEIGHTS ==
    << <<"performance", R(15)>>, <<"scalability", R(15)>>,
       <<"developer_experience", R(20)>>, <<"ecosystem", R(15)>>,
       <<"learning_curve", R(10)>>, <<"documentation", R(10)>>,
       <<"community_support", R(10)>>, <<"enterprise_readiness", R(5)>> >>

\* _normalize_weights, with a bug: divides by the default total instead of
\* the total of the merged weights.
_normalize_weights_stale_total(custom_weights) ==
    LET merged == Update(DEFAULT_WEIGHTS, custom_weights)
        total == RSum(Values(merged))
    IN  IF total = R(0) THEN DEFAULT_WEIGHTS
        ELSE [i \in DOMAIN merged |->
                 <<merged[i][1], RMul(RDiv(merged[i][2], R(100)), R(100))>>]

_normalize_weights(custom_weights) ==
    LET merged == Update(DEFAULT_WEIGHTS, custom_weights)
        total == RSum(Values(merged))
    IN  IF total = R(0) THEN DEFAULT_WEIGHTS
        ELSE [i \in DOMAIN merged |->
                 <<merged[i][1], RMul(RDiv(merged[i][2], total), R(100))>>]

\* str.lower() on the words a use case is made of.
Lower(w) ==
    CASE w = "Real-Time" -> "real-time"
      [] w = "Enterprise" -> "enterprise"
      [] w = "STARTUP" -> "startup"
      [] OTHER -> w

\* `uc_key in use_case_lower`: substring test; a use case is a sequence of
\* words and no key spans two words.
Contains(uc, uc_key) == \E i \in DOMAIN uc : Lower(uc[i]) = uc_key

adjustments ==
    << <<"real-time", << <<"performance", Rat(11, 10)>>,
                         <<"scalability", Rat(11, 10)>> >> >>,
       <<"enterprise", << <<"enterprise_readiness", Rat(12, 10)>>,
                          <<"documentation", Rat(11, 10)>> >> >>,
       <<"startup", << <<"developer_experience", Rat(115, 100)>>,
                       <<"learning_curve", Rat(11, 10)>> >> >> >>

_adjust_for_use_case(uc, category, score) ==
    LET hits == {i \in DOMAIN adjustments : Contains(uc, adjustments[i][1])}
    IN  IF hits = {} THEN score
        ELSE LET first == CHOOSE i \in hits : \A j \in hits : i <= j
                 table == adjustments[first][2]
             IN  IF Has(table, category)
                 THEN RMul(score, Get(table, category, R(1)))
                 ELSE score

\* score_technology without the clamp to [0, 100].
score_technology_unclamped(uc, tech_data) ==
    [i \in DOMAIN FEATURE_CATEGORIES |->
        LET category == FEATURE_CATEGORIES[i]
            raw_score == Get(tech_data.scores, category, R(50))
        IN  <<category, _adjust_for_use_case(uc, category, raw_score)>>]

score_technology(uc, tech_data) ==
    [i \in DOMAIN FEATURE_CATEGORIES |->
        LET category == FEATURE_CATEGORIES[i]
            raw_score == Get(tech_data.scores, category, R(50))
            adjusted_score == _adjust_for_use_case(uc, category, raw_score)
        IN  <<category, RMin(R(100), RMax(R(0), adjusted_score))>>]

calculate_weighted_score(w, category_scores) ==
    RSum([i \in DOMAIN category_scores |->
             RMul(category_scores[i][2],
                  RDiv(Get(w, category_scores[i][1], R(0)), R(100)))])

_identify_strengths(category_scores) ==
    SelectSeq(category_scores, LAMBDA p : RLe(R(75), p[2]))

_identify_weaknesses(category_scores) ==
    SelectSeq(category_scores, LAMBDA p : RLt(p[2], R(50)))

\* Names only, as the code returns them.
CategoryNames(pairs) == [i \in DOMAIN pairs |-> pairs[i][1]]

\* The loop of compare_technologies that fills tech_scores, keyed by name.
RECURSIVE ScoreAll(_, _, _, _)
ScoreAll(w, uc, list, tech_scores) ==
    IF list = <<>> THEN tech_scores
    ELSE LET tech_data == Head(list)
             tech_name == IF tech_data.named THEN tech_data.name ELSE "Unknown"
             category_scores == score_technology(uc, tech_data)
             card == [category_scores |-> category_scores,
                      weighted_total |-> calculate_weighted_score(w, category_scores),
                      strengths |-> CategoryNames(_identify_strengths(category_scores)),
                      weaknesses |-> CategoryNames(_identify_weaknesses(category_scores))]
         IN  ScoreAll(w, uc, Tail(list), Put(tech_scores, tech_name, card))

\* The confidence bands, with the middle band not rebased at its lower edge.
confidence_of_gap_unrebased(score_gap) ==
    IF RLt(score_gap, R(5)) THEN RAdd(R(40), RMul(score_gap, R(2)))
    ELSE IF RLt(score_gap, R(15)) THEN RAdd(R(50), RMul(score_gap, R(2)))
    ELSE RAdd(R(70), RMin(RSub(score_gap, R(15)), R(30)))

confidence_of_gap(score_gap) ==
    IF RLt(score_gap, R(5)) THEN RAdd(R(40), RMul(score_gap, R(2)))
    ELSE IF RLt(score_gap, R(15)) THEN RAdd(R(50), RMul(RSub(score_gap, R(5)), R(2)))
    ELSE RAdd(R(70), RMin(RSub(score_gap, R(15)), R(30)))

WeightedTotals(tech_scores) ==
    [i \in DOMAIN tech_scores |-> tech_scores[i][2].weighted_total]

\* _generate_recommendation with the sort order reversed: the recommended
\* technology is the last of the descending order.
_generate_recommendation_last(tech_scores) ==
    IF tech_scores = <<>> THEN [recommendation |-> "Insufficient data", confidence |-> R(0)]
    ELSE LET sorted_techs == SortedDesc(tech_scores, WeightedTotals(tech_scores))
             top == sorted_techs[Len(sorted_techs)]
             confidence ==
                 IF Len(sorted_techs) > 1
                 THEN confidence_of_gap(RSub(sorted_techs[1][2].weighted_total,
                                             sorted_techs[2][2].weighted_total))
                 ELSE R(100)
         IN  [recommendation |-> top[1], confidence |-> RMin(R(100), confidence)]

\* _generate_recommendation without the sort: the technologies are taken in
\* the order they were supplied.
_generate_recommendation_unsorted(tech_scores) ==
    IF tech_scores = <<>> THEN [recommendation |-> "Insufficient data", confidence |-> R(0)]
    ELSE LET sorted_techs == tech_scores
             top_score == sorted_techs[1][2].weighted_total
             confidence ==
                 IF Len(sorted_techs) > 1
                 THEN confidence_of_gap(RSub(top_score, sorted_techs[2][2].weighted_total))
                 ELSE R(100)
         IN  [recommendation |-> sorted_techs[1][1],
              confidence |-> RMin(R(100), confidence)]

_generate_recommendation(tech_scores) ==
    IF tech_scores = <<>> THEN [recommendation |-> "Insufficient data", confidence |-> R(0)]
    ELSE LET sorted_techs == SortedDesc(tech_scores, WeightedTotals(tech_scores))
             top_score == sorted_techs[1][2].weighted_total
             confidence ==
                 IF Len(sorted_techs) > 1
                 THEN confidence_of_gap(RSub(top_score, sorted_techs[2][2].weighted_total))
                 ELSE R(100)
         IN  [recommendation |-> sorted_techs[1][1],
              confidence |-> RMin(R(100), confidence)]

\* _extract_decision_factors; max() of an empty sequence raises ValueError.
DecisionFactorsRaise(tech_scores) == tech_scores = <<>>

_extract_decision_factors(w, tech_scores) ==
    LET sorted_weights == SubSeq(SortedDesc(w, Values(w)), 1, 3)
    IN  [i \in DOMAIN sorted_weights |->
            LET category == sorted_weights[i][1]
                category_scores ==
                    [t \in DOMAIN tech_scores |->
                        <<tech_scores[t][1],
                          Get(tech_scores[t][2].category_scores, category, R(0))>>]
                best_tech == MaxFirst(category_scores, Values(category_scores))
            IN  [category |-> category,
                 importance |-> Format1(sorted_weights[i][2]),
                 best_performer |-> best_tech[1],
                 score |-> best_tech[2]]]

_build_comparison_matrix(w, tech_scores) ==
    [i \in DOMAIN FEATURE_CATEGORIES |->
        [category |-> FEATURE_CATEGORIES[i],
         weight |-> Format1(Get(w, FEATURE_CATEGORIES[i], R(0))),
         scores |-> [t \in DOMAIN tech_scores |->
                        <<tech_scores[t][1],
                          Format1(Get(tech_scores[t][2].category_scores,
                                      FEATURE_CATEGORIES[i], R(0)))>>]]]
    \o << [category |-> "WEIGHTED TOTAL",
           weight |-> 1000,
           scores |-> [t \in DOMAIN tech_scores |->
                          <<tech_scores[t][1],
                            Format1(tech_scores[t][2].weighted_total)>>]] >>

\* The value compare_technologies returns when nothing raises.
compare_technologies(w, uc, list) ==
    LET tech_scores == ScoreAll(w, uc, list, <<>>)
        rec == _generate_recommendation(tech_scores)
    IN  [technologies |-> tech_scores,
         recommendation |-> rec.recommendation,
         confidence |-> rec.confidence,
         decision_factors |-> _extract_decision_factors(w, tech_scores),
         comparison_matrix |-> _build_comparison_matrix(w, tech_scores)]

NoResult == [technologies |-> <<>>, recommendation |-> "None", confidence |-> R(0),
             decision_factors |-> <<>>, comparison_matrix |-> <<>>]

(***************************************************************************)
(* Inputs of the comparator.                                               *)
(***************************************************************************)
Uniform(v) == [i \in DOMAIN FEATURE_CATEGORIES |-> <<FEATURE_CATEGORIES[i], R(v)>>]

TechCatalog ==
    << [named |-> TRUE, name |-> "React", scores |-> <<>>],
       [named |-> TRUE, name |-> "Svelte", scores |-> <<>>],
       [named |-> TRUE, name |-> "Vue", scores |-> Uniform(80)],
       [named |-> TRUE, name |-> "Angular", scores |-> Uniform(72)],
       [named |-> FALSE, name |-> "",
        scores |-> << <<"performance", R(95)>>, <<"scalability", R(130)>>,
                      <<"developer_experience", R(90)>>,
                      <<"learning_curve", R(-20)>>,
                      <<"enterprise_readiness", R(90)>> >>],
       [named |-> TRUE, name |-> "React",
        scores |-> << <<"performance", R(60)>>, <<"ecosystem", R(40)>> >>] >>

\* Constructor arguments: use case (a sequence of words) and weight overrides.
ComparisonInputs ==
    { [use_case |-> <<"general">>, weights |-> <<>>],
      [use_case |-> <<"Real-Time", "chat">>, weights |-> <<>>],
      [use_case |-> <<"Enterprise">>,
       weights |-> << <<"developer_experience", R(40)>>, <<"documentation", R(0)>> >>],
      [use_case |-> <<"STARTUP", "enterprise">>,
       weights |-> << <<"security", R(25)>>, <<"performance", R(30)>> >>],
      [use_case |-> <<>>, weights |-> << <<"performance", R(-85)>> >>],
      [use_case |-> <<"general">>, weights |-> << <<"performance", R(-200)>> >>],
      [use_case |-> <<"startup">>, weights |-> << <<"ecosystem", R(1)>> >>] }

\* Lists of distinct catalog entries, up to MaxTechs long.
TechLists ==
    UNION { { [i \in 1..n |-> TechCatalog[f[i]]] :
                f \in { g \in [1..n -> DOMAIN TechCatalog] :
                          \A a, b \in 1..n : a # b => g[a] # g[b] } } :
            n \in 0..MaxTechs }

(***************************************************************************)
(* TCOCalculator                                                           *)
(***************************************************************************)
\* An optional entry of the constructor's dictionary: <<>> when the key is
\* missing, <<v>> when it is present.
Opt(maybe, default) == IF maybe = <<>> THEN default ELSE maybe[1]

\* int(x): truncation toward zero.
Trunc(x) == IF x.n >= 0 THEN x.n \div x.d ELSE -((-x.n) \div x.d)

RECURSIVE RPow(_, _)
RPow(x, k) == IF k = 0 THEN R(1) ELSE RMul(x, RPow(x, k - 1))

\* TCOCalculator.__init__
TCOCalculator(data) ==
    [technology |-> data.technology,
     team_size |-> Opt(data.team_size, 5),
     timeline_years |-> Opt(data.timeline_years, 5),
     initial_costs |-> data.initial_costs,
     operational_costs |-> data.operational_costs,
     scaling_params |-> data.scaling_params,
     productivity_factors |-> data.productivity_factors]

_calculate_training_costs(self) ==
    LET hours_per_developer == Get(self.initial_costs, "training_hours_per_dev", R(40))
        avg_hourly_rate == Get(self.initial_costs, "developer_hourly_rate", R(100))
        training_materials == Get(self.initial_costs, "training_materials", R(500))
        total_hours == RMul(R(self.team_size), hours_per_developer)
    IN  RAdd(RMul(total_hours, avg_hourly_rate), training_materials)

calculate_initial_costs(self) ==
    LET costs == [licensing |-> Get(self.initial_costs, "licensing", R(0)),
                  training |-> _calculate_training_costs(self),
                  migration |-> Get(self.initial_costs, "migration", R(0)),
                  setup |-> Get(self.initial_costs, "setup", R(0)),
                  tooling |-> Get(self.initial_costs, "tooling", R(0))]
    IN  [licensing |-> costs.licensing, training |-> costs.training,
         migration |-> costs.migration, setup |-> costs.setup,
         tooling |-> costs.tooling,
         total_initial |-> RSum(<<costs.licensing, costs.training, costs.migration,
                                  costs.setup, costs.tooling>>)]

\* _calculate_hosting_cost compounding from year 1 on, as the user
\* projection does, instead of from year 2.
_calculate_hosting_cost_compound_year(self, year) ==
    LET base_cost == RMul(Get(self.operational_costs, "monthly_hosting", R(1000)), R(12))
        growth_rate == Get(self.scaling_params, "annual_growth_rate", Rat(20, 100))
    IN  RMul(base_cost, RPow(RAdd(R(1), growth_rate), year))

_calculate_hosting_cost(self, year) ==
    LET base_cost == RMul(Get(self.operational_costs, "monthly_hosting", R(1000)), R(12))
        growth_rate == Get(self.scaling_params, "annual_growth_rate", Rat(20, 100))
    IN  RMul(base_cost, RPow(RAdd(R(1), growth_rate), year - 1))

_calculate_maintenance_cost(self, year) ==
    LET hours_per_dev_per_month ==
            Get(self.operational_costs, "maintenance_hours_per_dev_monthly", R(20))
        avg_hourly_rate == Get(self.initial_costs, "developer_hourly_rate", R(100))
        monthly_cost == RMul(RMul(R(self.team_size), hours_per_dev_per_month), avg_hourly_rate)
    IN  RMul(monthly_cost, R(12))

\* range(1, timeline_years + 1)
Years(self) == 1..self.timeline_years

\* calculate_operational_costs with the loop stopping one year early.
calculate_operational_costs_short(self) ==
    LET yrs == 1..(self.timeline_years - 1)
        licensing == [year \in yrs |-> Get(self.operational_costs, "annual_licensing", R(0))]
        hosting == [year \in yrs |-> _calculate_hosting_cost(self, year)]
        support == [year \in yrs |-> Get(self.operational_costs, "annual_support", R(0))]
        maintenance == [year \in yrs |-> _calculate_maintenance_cost(self, year)]
    IN  [licensing |-> licensing, hosting |-> hosting, support |-> support,
         maintenance |-> maintenance,
         total_yearly |-> [year \in yrs |->
             RSum(<<licensing[year], hosting[year], support[year], maintenance[year]>>)]]

calculate_operational_costs(self) ==
    LET licensing == [year \in Years(self) |->
                         Get(self.operational_costs, "annual_licensing", R(0))]
        hosting == [year \in Years(self) |-> _calculate_hosting_cost(self, year)]
        support == [year \in Years(self) |->
                       Get(self.operational_costs, "annual_support", R(0))]
        maintenance == [year \in Years(self) |-> _calculate_maintenance_cost(self, year)]
    IN  [licensing |-> licensing, hosting |-> hosting, support |-> support,
         maintenance |-> maintenance,
         total_yearly |-> [year \in Years(self) |->
             RSum(<<licensing[year], hosting[year], support[year], maintenance[year]>>)]]

_calculate_infrastructure_scaling(self) ==
    LET base_servers == Get(self.scaling_params, "initial_servers", R(5))
        cost_per_server_monthly == Get(self.scaling_params, "cost_per_server_monthly", R(200))
        growth_rate == Get(self.scaling_params, "annual_growth_rate", Rat(20, 100))
    IN  [yearly_infrastructure_costs |->
            [year \in Years(self) |->
                RMul(RMul(RMul(base_servers, RPow(RAdd(R(1), growth_rate), year)),
                          cost_per_server_monthly), R(12))]]

_calculate_scaling_efficiency(cost_per_user) ==
    IF Len(cost_per_user) < 2 THEN "Insufficient data"
    ELSE LET initial == cost_per_user[1]
             final == cost_per_user[Len(cost_per_user)]
         IN  IF RLt(final, RMul(initial, Rat(8, 10)))
                 THEN "Excellent - economies of scale achieved"
             ELSE IF RLt(final, initial)
                 THEN "Good - improving efficiency over time"
             ELSE IF RLt(final, RMul(initial, Rat(12, 10)))
                 THEN "Moderate - costs growing with users"
             ELSE "Poor - costs growing faster than users"

calculate_scaling_costs(self) ==
    LET initial_users == Get(self.scaling_params, "initial_users", R(1000))
        annual_growth_rate == Get(self.scaling_params, "annual_growth_rate", Rat(20, 100))
        user_projections ==
            [year \in Years(self) |->
                Trunc(RMul(initial_users, RPow(RAdd(R(1), annual_growth_rate), year)))]
        operational == calculate_operational_costs(self)
        cost_per_user ==
            [year_idx \in DOMAIN operational.total_yearly |->
                IF user_projections[year_idx] > 0
                THEN RDiv(operational.total_yearly[year_idx], R(user_projections[year_idx]))
                ELSE R(0)]
    IN  [user_projections |-> user_projections,
         cost_per_user |-> cost_per_user,
         infrastructure_scaling |-> _calculate_infrastructure_scaling(self),
         scaling_efficiency |-> _calculate_scaling_efficiency(cost_per_user)]

\* 365 / avg_feature_time_days divides by zero when avg_feature_time_days is 0.
ProductivityRaises(self) ==
    Get(self.productivity_factors, "avg_feature_time_days", R(30)) = R(0)

calculate_productivity_impact(self) ==
    LET productivity_multiplier ==
            Get(self.productivity_factors, "productivity_multiplier", R(1))
        ttm_reduction == Get(self.productivity_factors, "time_to_market_reduction_days", R(0))
        avg_feature_time_days == Get(self.productivity_factors, "avg_feature_time_days", R(30))
        features_per_year == RDiv(R(365), avg_feature_time_days)
        faster_features_per_year ==
            RDiv(R(365), RMax(R(1), RSub(avg_feature_time_days, ttm_reduction)))
        additional_features == RSub(faster_features_per_year, features_per_year)
        feature_value == Get(self.productivity_factors, "avg_feature_value", R(10000))
        yearly_productivity_value == RMul(additional_features, feature_value)
    IN  [productivity_multiplier |-> productivity_multiplier,
         time_to_market_reduction_days |-> ttm_reduction,
         additional_features_per_year |-> additional_features,
         yearly_productivity_value |-> yearly_productivity_value,
         five_year_productivity_value |->
             RMul(yearly_productivity_value, R(self.timeline_years))]

_estimate_technical_debt(self) ==
    LET debt_percentage ==
            Get(self.productivity_factors, "technical_debt_percentage", Rat(15, 100))
        yearly_dev_cost == _calculate_maintenance_cost(self, 1)
    IN  RSum([year \in Years(self) |->
                 RMul(RMul(yearly_dev_cost, debt_percentage), R(year))])

risk_multipliers ==
    << <<"low", Rat(1, 10)>>, <<"medium", Rat(3, 10)>>, <<"high", Rat(6, 10)>> >>

_estimate_vendor_lock_in_cost(self) ==
    LET lock_in_risk == Get(self.productivity_factors, "vendor_lock_in_risk", "low")
        migration_cost == Get(self.initial_costs, "migration", R(10000))
        multiplier == Get(risk_multipliers, lock_in_risk, Rat(2, 10))
    IN  RMul(migration_cost, multiplier)

_estimate_security_costs(self) ==
    LET incidents_per_year ==
            Get(self.productivity_factors, "security_incidents_per_year", Rat(5, 10))
        avg_incident_cost ==
            Get(self.productivity_factors, "avg_security_incident_cost", R(50000))
    IN  RMul(RMul(incidents_per_year, avg_incident_cost), R(self.timeline_years))

_estimate_downtime_costs(self) ==
    LET hours_downtime_per_year ==
            Get(self.productivity_factors, "downtime_hours_per_year", R(2))
        cost_per_hour == Get(self.productivity_factors, "downtime_cost_per_hour", R(5000))
    IN  RMul(RMul(hours_downtime_per_year, cost_per_hour), R(self.timeline_years))

_estimate_turnover_costs(self) ==
    LET turnover_rate == Get(self.productivity_factors, "annual_turnover_rate", Rat(15, 100))
        cost_per_hire == Get(self.productivity_factors, "cost_per_new_hire", R(30000))
        hires_per_year == RMul(R(self.team_size), turnover_rate)
    IN  RMul(RMul(hires_per_year, cost_per_hire), R(self.timeline_years))

calculate_hidden_costs(self) ==
    LET costs == [technical_debt |-> _estimate_technical_debt(self),
                  vendor_lock_in_risk |-> _estimate_vendor_lock_in_cost(self),
                  security_incidents |-> _estimate_security_costs(self),
                  downtime_risk |-> _estimate_downtime_costs(self),
                  developer_turnover |-> _estimate_turnover_costs(self)]
    IN  [technical_debt |-> costs.technical_debt,
         vendor_lock_in_risk |-> costs.vendor_lock_in_risk,
         security_incidents |-> costs.security_incidents,
         downtime_risk |-> costs.downtime_risk,
         developer_turnover |-> costs.developer_turnover,
         total_hidden_costs |->
             RSum(<<costs.technical_debt, costs.vendor_lock_in_risk,
                    costs.security_incidents, costs.downtime_risk,
                    costs.developer_turnover>>)]

\* total_cost / self.timeline_years divides by zero when timeline_years is 0.
AverageRaises(self) == self.timeline_years = 0

\* calculate_total_tco with the hidden costs left out of the total.
calculate_total_tco_without_hidden(self) ==
    LET initial == calculate_initial_costs(self)
        operational == calculate_operational_costs(self)
        scaling == calculate_scaling_costs(self)
        productivity == calculate_productivity_impact(self)
        hidden == calculate_hidden_costs(self)
        total_operational == RSum(operational.total_yearly)
        total_cost == RAdd(initial.total_initial, total_operational)
        net_cost == RSub(total_cost, productivity.five_year_productivity_value)
    IN  [kind |-> "total_tco",
         technology |-> self.technology,
         timeline_years |-> self.timeline_years,
         initial_costs |-> initial,
         operational_costs |-> operational,
         scaling_analysis |-> scaling,
         productivity_impact |-> productivity,
         hidden_costs |-> hidden,
         total_tco |-> total_cost,
         net_tco_after_productivity |-> net_cost,
         average_yearly_cost |-> RDiv(total_cost, R(self.timeline_years))]

\* The value calculate_total_tco returns when nothing raises.
calculate_total_tco(self) ==
    LET initial == calculate_initial_costs(self)
        operational == calculate_operational_costs(self)
        scaling == calculate_scaling_costs(self)
        productivity == calculate_productivity_impact(self)
        hidden == calculate_hidden_costs(self)
        total_operational == RSum(operational.total_yearly)
        total_cost == RAdd(RAdd(initial.total_initial, total_operational),
                           hidden.total_hidden_costs)
        net_cost == RSub(total_cost, productivity.five_year_productivity_value)
    IN  [kind |-> "total_tco",
         technology |-> self.technology,
         timeline_years |-> self.timeline_years,
         initial_costs |-> initial,
         operational_costs |-> operational,
         scaling_analysis |-> scaling,
         productivity_impact |-> productivity,
         hidden_costs |-> hidden,
         total_tco |-> total_cost,
         net_tco_after_productivity |-> net_cost,
         average_yearly_cost |-> RDiv(total_cost, R(self.timeline_years))]

(***************************************************************************)
(* Inputs of the TCO calculator.                                           *)
(***************************************************************************)
TcoBases ==
    { [technology |-> "React", initial_costs |-> <<>>,
       operational_costs |-> << <<"monthly_hosting", R(1000)>> >>,
       scaling_params |-> << <<"annual_growth_rate", Rat(20, 100)>> >>,
       productivity_factors |-> <<>>],
      [technology |-> "Unknown", initial_costs |-> <<>>, operational_costs |-> <<>>,
       scaling_params |-> <<>>, productivity_factors |-> <<>>],
      [technology |-> "Vue",
       initial_costs |-> << <<"licensing", R(2000)>>, <<"migration", R(8000)>>,
                            <<"developer_hourly_rate", R(80)>> >>,
       operational_costs |-> << <<"monthly_hosting", R(500)>>,
                                <<"annual_licensing", R(1200)>>,
                                <<"annual_support", R(300)>> >>,
       scaling_params |-> << <<"annual_growth_rate", Rat(1, 2)>>,
                             <<"initial_users", R(0)>> >>,
       productivity_factors |-> << <<"vendor_lock_in_risk", "high">>,
                                   <<"time_to_market_reduction_days", R(5)>> >>],
      [technology |-> "Angular", initial_costs |-> <<>>,
       operational_costs |-> << <<"monthly_hosting", R(250)>> >>,
       scaling_params |-> << <<"annual_growth_rate", R(0)>> >>,
       productivity_factors |-> << <<"avg_feature_time_days", R(0)>> >>],
      [technology |-> "Svelte", initial_costs |-> <<>>,
       operational_costs |-> << <<"monthly_hosting", R(2000)>>,
                                <<"maintenance_hours_per_dev_monthly", R(10)>> >>,
       scaling_params |-> << <<"annual_growth_rate", R(1)>>,
                             <<"initial_users", R(10)>> >>,
       productivity_factors |-> << <<"vendor_lock_in_risk", "medium">>,
                                   <<"avg_feature_time_days", R(10)>>,
                                   <<"time_to_market_reduction_days", R(20)>> >>] }

TeamSizes == { <<>>, <<0>>, <<3>> }

Timelines == { <<k>> : k \in 0..MaxYears }

TcoInputs ==
    { [technology |-> b.technology, team_size |-> ts, timeline_years |-> ty,
       initial_costs |-> b.initial_costs, operational_costs |-> b.operational_costs,
       scaling_params |-> b.scaling_params,
       productivity_factors |-> b.productivity_factors] :
        b \in TcoBases, ts \in TeamSizes, ty \in Timelines }
    \cup { [technology |-> "Unknown", team_size |-> <<>>, timeline_years |-> <<>>,
            initial_costs |-> <<>>, operational_costs |-> <<>>,
            scaling_params |-> <<>>, productivity_factors |-> <<>>] }

NoTcoData ==
    [technology |-> "", team_size |-> <<>>, timeline_years |-> <<>>,
     initial_costs |-> <<>>, operational_costs |-> <<>>, scaling_params |-> <<>>,
     productivity_factors |-> <<>>]

NoTcoResult == [kind |-> "none"]

(***************************************************************************)
(* MigrationAnalyzer                                                       *)
(***************************************************************************)
\* f"{x:.0f}": the value rounded to an integer (half to even).
Format0(x) ==
    LET q == x.n \div x.d
        r == x.n - q * x.d
    IN  IF 2 * r < x.d THEN q
        ELSE IF 2 * r > x.d THEN q + 1
        ELSE IF q % 2 = 0 THEN q ELSE q + 1

\* MigrationAnalyzer.__init__
MigrationAnalyzer(data) ==
    [source_tech |-> data.source_technology,
     target_tech |-> data.target_technology,
     codebase_stats |-> data.codebase_stats,
     constraints |-> data.constraints,
     team_info |-> data.team]

_score_code_volume(self) ==
    LET lines_of_code == Get(self.codebase_stats, "lines_of_code", R(10000))
        num_components == Get(self.codebase_stats, "num_components", R(50))
        base_score ==
            IF RLt(lines_of_code, R(5000)) THEN R(2)
            ELSE IF RLt(lines_of_code, R(20000)) THEN R(4)
            ELSE IF RLt(lines_of_code, R(50000)) THEN R(6)
            ELSE IF RLt(lines_of_code, R(100000)) THEN R(8)
            ELSE R(10)
    IN  IF RLt(R(200), num_components) THEN RMin(R(10), RAdd(base_score, R(1)))
        ELSE IF RLt(R(500), num_components) THEN RMin(R(10), RAdd(base_score, R(2)))
        ELSE base_score

_score_architecture_changes(self) ==
    LET arch_change_level ==
            Get(self.codebase_stats, "architecture_change_level", "moderate")
        scores == << <<"minimal", R(2)>>, <<"moderate", R(5)>>,
                     <<"significant", R(7)>>, <<"complete", R(10)>> >>
    IN  Get(scores, arch_change_level, R(5))

\* _score_data_migration without the final min(10, score).
_score_data_migration_unclamped(self) ==
    LET has_database == Get(self.codebase_stats, "has_database", TRUE)
        database_size_gb == Get(self.codebase_stats, "database_size_gb", R(10))
        schema_changes == Get(self.codebase_stats, "schema_changes_required", "minimal")
        data_transformation ==
            Get(self.codebase_stats, "data_transformation_required", FALSE)
        size_score ==
            IF RLt(database_size_gb, R(1)) THEN R(2)
            ELSE IF RLt(database_size_gb, R(10)) THEN R(3)
            ELSE IF RLt(database_size_gb, R(100)) THEN R(5)
            ELSE IF RLt(database_size_gb, R(1000)) THEN R(7)
            ELSE R(9)
        schema_adjustments == << <<"none", R(0)>>, <<"minimal", R(1)>>,
                                 <<"moderate", R(2)>>, <<"significant", R(3)>> >>
        with_schema == RAdd(size_score, Get(schema_adjustments, schema_changes, R(1)))
        score == IF data_transformation THEN RAdd(with_schema, R(2)) ELSE with_schema
    IN  IF ~has_database THEN R(1) ELSE score

_score_data_migration(self) ==
    LET has_database == Get(self.codebase_stats, "has_database", TRUE)
        database_size_gb == Get(self.codebase_stats, "database_size_gb", R(10))
        schema_changes == Get(self.codebase_stats, "schema_changes_required", "minimal")
        data_transformation ==
            Get(self.codebase_stats, "data_transformation_required", FALSE)
        size_score ==
            IF RLt(database_size_gb, R(1)) THEN R(2)
            ELSE IF RLt(database_size_gb, R(10)) THEN R(3)
            ELSE IF RLt(database_size_gb, R(100)) THEN R(5)
            ELSE IF RLt(database_size_gb, R(1000)) THEN R(7)
            ELSE R(9)
        schema_adjustments == << <<"none", R(0)>>, <<"minimal", R(1)>>,
                                 <<"moderate", R(2)>>, <<"significant", R(3)>> >>
        with_schema == RAdd(size_score, Get(schema_adjustments, schema_changes, R(1)))
        score == IF data_transformation THEN RAdd(with_schema, R(2)) ELSE with_schema
    IN  IF ~has_database THEN R(1) ELSE RMin(R(10), score)

_score_api_compatibility(self) ==
    LET breaking_api_changes == Get(self.codebase_stats, "breaking_api_changes", "some")
        scores == << <<"none", R(1)>>, <<"minimal", R(3)>>, <<"some", R(5)>>,
                     <<"many", R(7)>>, <<"complete", R(10)>> >>
    IN  Get(scores, breaking_api_changes, R(5))

_score_dependency_changes(self) ==
    LET num_dependencies == Get(self.codebase_stats, "num_dependencies", R(20))
        dependencies_to_replace ==
            Get(self.codebase_stats, "dependencies_to_replace", R(5))
    IN  IF num_dependencies = R(0) THEN R(1)
        ELSE LET replacement_pct ==
                     RMul(RDiv(dependencies_to_replace, num_dependencies), R(100))
             IN  IF RLt(replacement_pct, R(10)) THEN R(2)
                 ELSE IF RLt(replacement_pct, R(25)) THEN R(4)
                 ELSE IF RLt(replacement_pct, R(50)) THEN R(6)
                 ELSE IF RLt(replacement_pct, R(75)) THEN R(8)
                 ELSE R(10)

_score_testing_requirements(self) ==
    LET test_coverage == Get(self.codebase_stats, "current_test_coverage", Rat(5, 10))
        num_tests == Get(self.codebase_stats, "num_tests", R(100))
        base_score ==
            IF RLe(Rat(8, 10), test_coverage) THEN R(3)
            ELSE IF RLe(Rat(6, 10), test_coverage) THEN R(5)
            ELSE IF RLe(Rat(4, 10), test_coverage) THEN R(7)
            ELSE R(9)
    IN  IF RLt(R(500), num_tests) THEN RMin(R(10), RAdd(base_score, R(1)))
        ELSE base_score

calculate_complexity_score(self) ==
    LET scores == << <<"code_volume", _score_code_volume(self)>>,
                     <<"architecture_changes", _score_architecture_changes(self)>>,
                     <<"data_migration", _score_data_migration(self)>>,
                     <<"api_compatibility", _score_api_compatibility(self)>>,
                     <<"dependency_changes", _score_dependency_changes(self)>>,
                     <<"testing_requirements", _score_testing_requirements(self)>> >>
        complexity_weights ==
            << <<"code_volume", Rat(20, 100)>>, <<"architecture_changes", Rat(25, 100)>>,
               <<"data_migration", Rat(20, 100)>>, <<"api_compatibility", Rat(15, 100)>>,
               <<"dependency_changes", Rat(10, 100)>>,
               <<"testing_requirements", Rat(10, 100)>> >>
        overall == RSum([i \in DOMAIN scores |->
                            RMul(scores[i][2],
                                 Get(complexity_weights, scores[i][1], R(0)))])
    IN  Put(scores, "overall_complexity", overall)

phase_percentages ==
    << <<"planning_and_prototyping", Rat(15, 100)>>, <<"core_migration", Rat(45, 100)>>,
       <<"testing_and_validation", Rat(25, 100)>>,
       <<"deployment_and_monitoring", Rat(10, 100)>>,
       <<"buffer_and_contingency", Rat(5, 100)>> >>

_calculate_phase_breakdown(total_hours) ==
    [i \in DOMAIN phase_percentages |->
        LET hours == RMul(total_hours, phase_percentages[i][2])
        IN  <<phase_percentages[i][1],
              [hours |-> hours,
               person_weeks |-> RDiv(hours, R(40)),
               percentage |-> Format0(RMul(phase_percentages[i][2], R(100)))]>>]

\* estimated_hours / (team_size * hours_per_week_per_dev) divides by zero when
\* either factor is 0.
EffortRaises(self) ==
    RMul(Get(self.team_info, "team_size", R(3)),
         Get(self.team_info, "hours_per_week", R(30))) = R(0)

\* The value estimate_effort returns when nothing raises.
estimate_effort(self) ==
    LET complexity == calculate_complexity_score(self)
        overall_complexity == Get(complexity, "overall_complexity", R(0))
        lines_of_code == Get(self.codebase_stats, "lines_of_code", R(10000))
        base_hours == RDiv(lines_of_code, R(50))
        complexity_multiplier == RAdd(R(1), RDiv(overall_complexity, R(10)))
        estimated_hours == RMul(base_hours, complexity_multiplier)
        phases == _calculate_phase_breakdown(estimated_hours)
        team_size == Get(self.team_info, "team_size", R(3))
        hours_per_week_per_dev == Get(self.team_info, "hours_per_week", R(30))
        total_dev_weeks == RDiv(estimated_hours, RMul(team_size, hours_per_week_per_dev))
        total_calendar_weeks == RMul(total_dev_weeks, Rat(12, 10))
    IN  [kind |-> "effort",
         total_hours |-> estimated_hours,
         total_person_months |-> RDiv(estimated_hours, R(160)),
         phases |-> phases,
         estimated_timeline |->
             [dev_weeks |-> total_dev_weeks,
              calendar_weeks |-> total_calendar_weeks,
              calendar_months |-> RDiv(total_calendar_weeks, Rat(433, 100))],
         team_assumptions |->
             [team_size |-> team_size,
              hours_per_week_per_dev |-> hours_per_week_per_dev]]

_identify_technical_risks(complexity) ==
    LET api == IF RLe(R(7), Get(complexity, "api_compatibility", R(0)))
               THEN << [risk |-> "Breaking API changes may cause integration failures",
                        severity |-> "High",
                        mitigation |-> "Create compatibility layer; implement feature flags for gradual rollout"] >>
               ELSE <<>>
        data == IF RLe(R(7), Get(complexity, "data_migration", R(0)))
                THEN << [risk |-> "Data migration could cause data loss or corruption",
                         severity |-> "Critical",
                         mitigation |-> "Implement robust backup strategy; run parallel systems during migration; extensive validation"] >>
                ELSE <<>>
        arch == IF RLe(R(8), Get(complexity, "architecture_changes", R(0)))
                THEN << [risk |-> "Major architectural changes increase risk of performance regression",
                         severity |-> "High",
                         mitigation |-> "Extensive performance testing; staged rollout; monitoring and alerting"] >>
                ELSE <<>>
        testing == IF RLe(R(7), Get(complexity, "testing_requirements", R(0)))
                   THEN << [risk |-> "Inadequate test coverage may miss critical bugs",
                            severity |-> "Medium",
                            mitigation |-> "Improve test coverage before migration; automated regression testing; user acceptance testing"] >>
                   ELSE <<>>
        risks == api \o data \o arch \o testing
    IN  IF risks = <<>>
        THEN << [risk |-> "Standard technical risks (bugs, edge cases)",
                 severity |-> "Low",
                 mitigation |-> "Standard QA processes and staged rollout"] >>
        ELSE risks

_identify_business_risks(self) ==
    LET downtime_tolerance == Get(self.constraints, "downtime_tolerance", "low")
        downtime == IF downtime_tolerance = "none"
                    THEN << [risk |-> "Zero-downtime migration increases complexity and risk",
                             severity |-> "High",
                             mitigation |-> "Blue-green deployment; feature flags; gradual traffic migration"] >>
                    ELSE <<>>
    IN  downtime \o
        << [risk |-> "New implementation may lack feature parity",
            severity |-> "Medium",
            mitigation |-> "Comprehensive feature audit; prioritized feature list; clear communication"],
           [risk |-> "Migration may take longer than estimated",
            severity |-> "Medium",
            mitigation |-> "Build in 20% buffer; regular progress reviews; scope management"] >>

\* _identify_team_risks with the unconditional knowledge-retention risk
\* left out.
_identify_team_risks_conditional_only(self) ==
    LET team_experience == Get(self.team_info, "target_tech_experience", "low")
        team_size == Get(self.team_info, "team_size", R(3))
        learning == IF team_experience \in {"low", "none"}
                    THEN << [risk |-> "Team lacks experience with target technology",
                             severity |-> "High",
                             mitigation |-> "Training program; hire experienced developers; external consulting"] >>
                    ELSE <<>>
        small == IF RLt(team_size, R(3))
                 THEN << [risk |-> "Small team size may extend timeline",
                          severity |-> "Medium",
                          mitigation |-> "Consider augmenting team; reduce scope; extend timeline"] >>
                 ELSE <<>>
    IN  learning \o small

_identify_team_risks(self) ==
    LET team_experience == Get(self.team_info, "target_tech_experience", "low")
        team_size == Get(self.team_info, "team_size", R(3))
        learning == IF team_experience \in {"low", "none"}
                    THEN << [risk |-> "Team lacks experience with target technology",
                             severity |-> "High",
                             mitigation |-> "Training program; hire experienced developers; external consulting"] >>
                    ELSE <<>>
        small == IF RLt(team_size, R(3))
                 THEN << [risk |-> "Small team size may extend timeline",
                          severity |-> "Medium",
                          mitigation |-> "Consider augmenting team; reduce scope; extend timeline"] >>
                 ELSE <<>>
    IN  learning \o small \o
        << [risk |-> "Loss of institutional knowledge during migration",
            severity |-> "Medium",
            mitigation |-> "Comprehensive documentation; knowledge sharing sessions; pair programming"] >>

assess_risks(self) ==
    LET complexity == calculate_complexity_score(self)
    IN  << <<"technical_risks", _identify_technical_risks(complexity)>>,
           <<"business_risks", _identify_business_risks(self)>>,
           <<"team_risks", _identify_team_risks(self)>> >>

_generate_approach_phases(approach) ==
    LET phases ==
            << <<"direct_migration",
                 <<"Phase 1: Set up target environment and migrate configuration",
                   "Phase 2: Migrate codebase and dependencies",
                   "Phase 3: Migrate data with validation",
                   "Phase 4: Comprehensive testing",
                   "Phase 5: Cutover and monitoring">> >>,
               <<"phased_migration",
                 <<"Phase 1: Identify and prioritize components for migration",
                   "Phase 2: Migrate non-critical components first",
                   "Phase 3: Migrate core components with parallel running",
                   "Phase 4: Migrate critical components with rollback plan",
                   "Phase 5: Decommission old system">> >>,
               <<"strangler_pattern",
                 <<"Phase 1: Set up routing layer between old and new systems",
                   "Phase 2: Implement new features in target technology only",
                   "Phase 3: Gradually migrate existing features (lowest risk first)",
                   "Phase 4: Migrate high-risk components last with extensive testing",
                   "Phase 5: Complete migration and remove routing layer">> >> >>
    IN  Get(phases, approach, Get(phases, "phased_migration", <<>>))

\* _recommend_migration_approach with the first band closed below its bound
\* (< 3 instead of <= 3).
_recommend_migration_approach_strict(complexity_score) ==
    LET approach == IF RLt(complexity_score, R(3)) THEN "direct_migration"
                    ELSE IF RLe(complexity_score, R(6)) THEN "phased_migration"
                    ELSE "strangler_pattern"
    IN  [approach |-> approach,
         description |->
             CASE approach = "direct_migration" ->
                    "Direct migration - low complexity allows straightforward migration"
               [] approach = "phased_migration" ->
                    "Phased migration - migrate components incrementally to manage risk"
               [] OTHER ->
                    "Strangler pattern - gradually replace old system while running in parallel",
         timeline_multiplier |->
             CASE approach = "direct_migration" -> R(1)
               [] approach = "phased_migration" -> Rat(13, 10)
               [] OTHER -> Rat(15, 10),
         phases |-> _generate_approach_phases(approach)]

_recommend_migration_approach(complexity_score) ==
    LET approach == IF RLe(complexity_score, R(3)) THEN "direct_migration"
                    ELSE IF RLe(complexity_score, R(6)) THEN "phased_migration"
                    ELSE "strangler_pattern"
    IN  [approach |-> approach,
         description |->
             CASE approach = "direct_migration" ->
                    "Direct migration - low complexity allows straightforward migration"
               [] approach = "phased_migration" ->
                    "Phased migration - migrate components incrementally to manage risk"
               [] OTHER ->
                    "Strangler pattern - gradually replace old system while running in parallel",
         timeline_multiplier |->
             CASE approach = "direct_migration" -> R(1)
               [] approach = "phased_migration" -> Rat(13, 10)
               [] OTHER -> Rat(15, 10),
         phases |-> _generate_approach_phases(approach)]

\* The number of risks, over all categories, of severity High or Critical.
HighRiskCount(risks) ==
    LET Count(list) == Cardinality({i \in DOMAIN list :
                                       list[i].severity \in {"High", "Critical"}})
    IN  Count(risks[1][2]) + Count(risks[2][2]) + Count(risks[3][2])

_generate_migration_recommendation(complexity, effort, risks) ==
    LET overall_complexity == Get(complexity, "overall_complexity", R(0))
        timeline_months == effort.estimated_timeline.calendar_months
        high_risk_count == HighRiskCount(risks)
    IN  IF RLe(overall_complexity, R(4)) /\ high_risk_count <= 2
        THEN <<"Recommended - Low complexity migration achievable in ",
               Format1(timeline_months), " months with manageable risks">>
        ELSE IF RLe(overall_complexity, R(7)) /\ high_risk_count <= 4
        THEN <<"Proceed with caution - Moderate complexity migration requiring ",
               Format1(timeline_months), " months and careful risk management">>
        ELSE <<"High risk - Complex migration requiring ", Format1(timeline_months),
               " months. Consider: incremental approach, additional resources, or alternative solutions">>

_define_success_criteria ==
    <<"Feature parity with current system",
      "Performance equal or better than current system",
      "Zero data loss or corruption",
      "All tests passing (unit, integration, E2E)",
      "Successful production deployment with <1% error rate",
      "Team trained and comfortable with new technology",
      "Documentation complete and up-to-date">>

\* The value generate_migration_plan returns when estimate_effort does not
\* raise.
generate_migration_plan(self) ==
    [kind |-> "plan",
     source_technology |-> self.source_tech,
     target_technology |-> self.target_tech,
     complexity_analysis |-> calculate_complexity_score(self),
     effort_estimation |-> estimate_effort(self),
     risk_assessment |-> assess_risks(self),
     recommended_approach |->
         _recommend_migration_approach(
             Get(calculate_complexity_score(self), "overall_complexity", R(0))),
     overall_recommendation |->
         _generate_migration_recommendation(calculate_complexity_score(self),
                                            estimate_effort(self), assess_risks(self)),
     success_criteria |-> _define_success_criteria]

(***************************************************************************)
(* Inputs of the migration analyzer.                                       *)
(***************************************************************************)
CodebaseStats ==
    { <<>>,
      << <<"lines_of_code", R(3000)>>, <<"num_components", R(20)>>,
         <<"architecture_change_level", "minimal">>, <<"has_database", FALSE>>,
         <<"breaking_api_changes", "none">>, <<"num_dependencies", R(0)>>,
         <<"current_test_coverage", Rat(9, 10)>> >>,
      << <<"lines_of_code", R(30000)>>, <<"num_components", R(250)>>,
         <<"database_size_gb", R(500)>>, <<"schema_changes_required", "significant">>,
         <<"data_transformation_required", TRUE>>,
         <<"breaking_api_changes", "many">>, <<"dependencies_to_replace", R(12)>>,
         <<"current_test_coverage", Rat(65, 100)>>, <<"num_tests", R(800)>> >>,
      << <<"lines_of_code", R(150000)>>, <<"num_components", R(600)>>,
         <<"architecture_change_level", "complete">>,
         <<"database_size_gb", R(2000)>>, <<"schema_changes_required", "moderate">>,
         <<"breaking_api_changes", "complete">>, <<"num_dependencies", R(40)>>,
         <<"dependencies_to_replace", R(36)>>,
         <<"current_test_coverage", Rat(1, 10)>>, <<"num_tests", R(600)>> >>,
      << <<"lines_of_code", R(0)>>, <<"architecture_change_level", "unheard-of">>,
         <<"database_size_gb", Rat(1, 2)>>, <<"schema_changes_required", "none">>,
         <<"breaking_api_changes", "minimal">>, <<"dependencies_to_replace", R(3)>>,
         <<"current_test_coverage", Rat(45, 100)>> >>,
      << <<"lines_of_code", R(60000)>>, <<"num_components", R(201)>>,
         <<"architecture_change_level", "significant">>,
         <<"database_size_gb", R(50)>>, <<"dependencies_to_replace", R(8)>> >>,
      << <<"lines_of_code", R(3000)>>, <<"architecture_change_level", "minimal">>,
         <<"has_database", FALSE>>, <<"breaking_api_changes", "complete">>,
         <<"num_dependencies", R(0)>>, <<"current_test_coverage", Rat(9, 10)>> >>,
      << <<"lines_of_code", R(3000)>>, <<"architecture_change_level", "complete">>,
         <<"database_size_gb", R(10)>>, <<"schema_changes_required", "none">>,
         <<"breaking_api_changes", "complete">>, <<"num_dependencies", R(0)>>,
         <<"current_test_coverage", Rat(6, 10)>> >>,
      << <<"lines_of_code", R(30000)>>, <<"num_components", R(600)>> >> }

TeamInfos ==
    { <<>>,
      << <<"team_size", R(0)>> >>,
      << <<"hours_per_week", R(0)>> >>,
      << <<"team_size", R(4)>>, <<"hours_per_week", R(20)>> >>,
      << <<"team_size", R(1)>>, <<"hours_per_week", R(40)>> >>,
      << <<"team_size", R(5)>>, <<"target_tech_experience", "high">> >> }

Constraints == { <<>>, << <<"downtime_tolerance", "none">> >> }

MigrationInputs ==
    { [source_technology |-> "AngularJS", target_technology |-> "React",
       codebase_stats |-> cs, constraints |-> c, team |-> t] :
        cs \in CodebaseStats, c \in Constraints, t \in TeamInfos }

NoMigrationData ==
    [source_technology |-> "Unknown", target_technology |-> "Unknown",
     codebase_stats |-> <<>>, constraints |-> <<>>, team |-> <<>>]

NoMigResult == [kind |-> "none"]

(***************************************************************************)
(* SecurityAssessor                                                        *)
(***************************************************************************)
COMPLIANCE_STANDARDS ==
    << <<"GDPR", <<"data_privacy", "consent_management", "data_portability",
                   "right_to_deletion", "audit_logging">> >>,
       <<"SOC2", <<"access_controls", "encryption_at_rest", "encryption_in_transit",
                   "audit_logging", "backup_recovery">> >>,
       <<"HIPAA", <<"phi_protection", "encryption_at_rest", "encryption_in_transit",
                    "access_controls", "audit_logging">> >>,
       <<"PCI_DSS", <<"payment_data_encryption", "access_controls", "network_security",
                      "vulnerability_management">> >> >>

\* SecurityAssessor.__init__
SecurityAssessor(data) ==
    [technology |-> data.technology,
     vulnerabilities |-> data.vulnerabilities,
     security_features |-> data.security_features,
     compliance_requirements |-> data.compliance_requirements]

_score_vulnerabilities(self) ==
    LET critical == Get(self.vulnerabilities, "critical_last_12m", R(0))
        high == Get(self.vulnerabilities, "high_last_12m", R(0))
        medium == Get(self.vulnerabilities, "medium_last_12m", R(0))
        low == Get(self.vulnerabilities, "low_last_12m", R(0))
        weighted_vulns ==
            RSum(<<RMul(critical, R(4)), RMul(high, R(2)), RMul(medium, R(1)),
                   RMul(low, Rat(1, 2))>>)
        banded ==
            IF weighted_vulns = R(0) THEN R(100)
            ELSE IF RLe(weighted_vulns, R(5)) THEN R(90)
            ELSE IF RLe(weighted_vulns, R(10)) THEN R(80)
            ELSE IF RLe(weighted_vulns, R(20)) THEN R(70)
            ELSE IF RLe(weighted_vulns, R(30)) THEN R(60)
            ELSE IF RLe(weighted_vulns, R(50)) THEN R(50)
            ELSE RMax(R(0), RSub(R(50), RDiv(RSub(weighted_vulns, R(50)), R(2))))
        score == IF RLt(R(0), critical)
                 THEN RMax(R(0), RSub(banded, RMul(critical, R(10))))
                 ELSE banded
    IN  RMax(R(0), RMin(R(100), score))

_score_patch_responsiveness(self) ==
    LET critical_patch_days == Get(self.vulnerabilities, "avg_critical_patch_days", R(30))
        high_patch_days == Get(self.vulnerabilities, "avg_high_patch_days", R(60))
        critical_score ==
            IF RLe(critical_patch_days, R(7)) THEN R(50)
            ELSE IF RLe(critical_patch_days, R(14)) THEN R(40)
            ELSE IF RLe(critical_patch_days, R(30)) THEN R(30)
            ELSE IF RLe(critical_patch_days, R(60)) THEN R(20)
            ELSE R(10)
        high_score ==
            IF RLe(high_patch_days, R(14)) THEN R(30)
            ELSE IF RLe(high_patch_days, R(30)) THEN R(25)
            ELSE IF RLe(high_patch_days, R(60)) THEN R(20)
            ELSE IF RLe(high_patch_days, R(90)) THEN R(15)
            ELSE R(10)
        team_score == IF Get(self.vulnerabilities, "has_security_team", FALSE)
                      THEN R(20) ELSE R(0)
    IN  RMin(R(100), RSum(<<critical_score, high_score, team_score>>))

essential_features ==
    <<"encryption_at_rest", "encryption_in_transit", "authentication",
      "authorization", "input_validation">>

advanced_features ==
    <<"rate_limiting", "csrf_protection", "xss_protection", "sql_injection_protection",
      "audit_logging", "mfa_support", "rbac", "secrets_management",
      "security_headers", "cors_configuration">>

_score_security_features(self) ==
    LET essential == SelectSeq(essential_features,
                        LAMBDA f : Get(self.security_features, f, FALSE))
        advanced == SelectSeq(advanced_features,
                        LAMBDA f : Get(self.security_features, f, FALSE))
    IN  RMin(R(100), R(10 * Len(essential) + 5 * Len(advanced)))

_score_track_record(self) ==
    LET years_since_major ==
            Get(self.vulnerabilities, "years_since_major_incident", R(5))
        incident == IF RLe(R(3), years_since_major) THEN R(30)
                    ELSE IF RLe(R(1), years_since_major) THEN R(15)
                    ELSE R(-10)
        certifications ==
            IF Get(self.vulnerabilities, "has_security_certifications", FALSE)
            THEN R(20) ELSE R(0)
        bounty == IF Get(self.vulnerabilities, "has_bug_bounty_program", FALSE)
                  THEN R(10) ELSE R(0)
        security_audits == Get(self.vulnerabilities, "security_audits_per_year", R(0))
        score == RSum(<<R(50), incident, certifications, bounty,
                        RMin(R(20), RMul(security_audits, R(10)))>>)
    IN  RMin(R(100), RMax(R(0), score))

\* _calculate_grade with the B band open at 80 (> 80 instead of >= 80).
_calculate_grade_open_band(score) ==
    IF RLe(R(90), score) THEN "A"
    ELSE IF RLt(R(80), score) THEN "B"
    ELSE IF RLe(R(70), score) THEN "C"
    ELSE IF RLe(R(60), score) THEN "D"
    ELSE "F"

_calculate_grade(score) ==
    IF RLe(R(90), score) THEN "A"
    ELSE IF RLe(R(80), score) THEN "B"
    ELSE IF RLe(R(70), score) THEN "C"
    ELSE IF RLe(R(60), score) THEN "D"
    ELSE "F"

calculate_security_score(self) ==
    LET vuln_score == _score_vulnerabilities(self)
        patch_score == _score_patch_responsiveness(self)
        features_score == _score_security_features(self)
        track_record_score == _score_track_record(self)
        overall == RSum(<<RMul(vuln_score, Rat(30, 100)),
                          RMul(patch_score, Rat(25, 100)),
                          RMul(features_score, Rat(30, 100)),
                          RMul(track_record_score, Rat(15, 100))>>)
    IN  [overall_security_score |-> overall,
         vulnerability_score |-> vuln_score,
         patch_responsiveness |-> patch_score,
         security_features_score |-> features_score,
         track_record_score |-> track_record_score,
         security_grade |-> _calculate_grade(overall)]

\* The recommendation texts; the joined feature names are kept as a list.
_generate_compliance_recommendation(readiness_level, missing_features) ==
    LET first3 == SubSeq(missing_features, 1,
                         IF Len(missing_features) < 3 THEN Len(missing_features) ELSE 3)
    IN  IF readiness_level = "Ready"
            THEN <<"Proceed with compliance audit and certification">>
        ELSE IF readiness_level = "Mostly Ready"
            THEN <<"Implement missing features: ", first3>>
        ELSE IF readiness_level = "Partial"
            THEN <<"Significant implementation needed. Start with: ", first3>>
        ELSE <<"Not recommended without major security enhancements">>

\* _assess_standard_readiness counting a feature as met when it is listed in
\* security_features, whatever its value.
_assess_standard_readiness_listed(self, standard) ==
    LET required_features == Get(COMPLIANCE_STANDARDS, standard, <<>>)
        total_count == Len(required_features)
        met == SelectSeq(required_features,
                   LAMBDA f : Has(self.security_features, f))
        missing_features == SelectSeq(required_features,
                   LAMBDA f : ~Has(self.security_features, f))
        met_count == Len(met)
        readiness_pct == IF total_count > 0
                         THEN RMul(RDiv(R(met_count), R(total_count)), R(100))
                         ELSE R(0)
        readiness_level ==
            IF RLe(R(90), readiness_pct) THEN "Ready"
            ELSE IF RLe(R(70), readiness_pct) THEN "Mostly Ready"
            ELSE IF RLe(R(50), readiness_pct) THEN "Partial"
            ELSE "Not Ready"
        status ==
            IF RLe(R(90), readiness_pct) THEN "Compliant - meets all requirements"
            ELSE IF RLe(R(70), readiness_pct)
                THEN "Minor gaps - additional configuration needed"
            ELSE IF RLe(R(50), readiness_pct) THEN "Significant work required"
            ELSE "Major gaps - extensive implementation needed"
    IN  [readiness_level |-> readiness_level,
         readiness_percentage |-> readiness_pct,
         status |-> status,
         features_met |-> met_count,
         features_required |-> total_count,
         missing_features |-> missing_features,
         recommendation |->
             _generate_compliance_recommendation(readiness_level, missing_features)]

_assess_standard_readiness(self, standard) ==
    LET required_features == Get(COMPLIANCE_STANDARDS, standard, <<>>)
        total_count == Len(required_features)
        met == SelectSeq(required_features,
                   LAMBDA f : Get(self.security_features, f, FALSE))
        missing_features == SelectSeq(required_features,
                   LAMBDA f : ~Get(self.security_features, f, FALSE))
        met_count == Len(met)
        readiness_pct == IF total_count > 0
                         THEN RMul(RDiv(R(met_count), R(total_count)), R(100))
                         ELSE R(0)
        readiness_level ==
            IF RLe(R(90), readiness_pct) THEN "Ready"
            ELSE IF RLe(R(70), readiness_pct) THEN "Mostly Ready"
            ELSE IF RLe(R(50), readiness_pct) THEN "Partial"
            ELSE "Not Ready"
        status ==
            IF RLe(R(90), readiness_pct) THEN "Compliant - meets all requirements"
            ELSE IF RLe(R(70), readiness_pct)
                THEN "Minor gaps - additional configuration needed"
            ELSE IF RLe(R(50), readiness_pct) THEN "Significant work required"
            ELSE "Major gaps - extensive implementation needed"
    IN  [readiness_level |-> readiness_level,
         readiness_percentage |-> readiness_pct,
         status |-> status,
         features_met |-> met_count,
         features_required |-> total_count,
         missing_features |-> missing_features,
         recommendation |->
             _generate_compliance_recommendation(readiness_level, missing_features)]

RECURSIVE AssessEach(_, _, _)
AssessEach(self, standards, compliance) ==
    IF standards = <<>> THEN compliance
    ELSE LET standard == Head(standards)
             entry == IF ~Has(COMPLIANCE_STANDARDS, standard)
                      THEN [readiness |-> "Unknown", score |-> 0,
                            status |-> "Unknown standard"]
                      ELSE _assess_standard_readiness(self, standard)
         IN  AssessEach(self, Tail(standards), Put(compliance, standard, entry))

\* assess_compliance() with standards left at None.
assess_compliance(self) == AssessEach(self, self.compliance_requirements, <<>>)

_calculate_severity_distribution(vulnerabilities) ==
    LET total == RSum(Values(vulnerabilities))
    IN  [i \in DOMAIN vulnerabilities |->
            <<vulnerabilities[i][1],
              IF total = R(0) THEN <<"0%">>
              ELSE <<Format1(RMul(RDiv(vulnerabilities[i][2], total), R(100))), "%">> >>]

\* Variant of _analyze_vulnerability_trend that compares the current total with
\* the 3-year total instead of the 3-year average.
_analyze_vulnerability_trend_total(current, historical) ==
    LET current_total == RSum(Values(current))
        historical_total == RSum(Values(historical))
    IN  IF RLt(current_total, RMul(historical_total, Rat(7, 10)))
            THEN "Improving - fewer vulnerabilities than historical average"
        ELSE IF RLt(current_total, RMul(historical_total, Rat(12, 10)))
            THEN "Stable - consistent with historical average"
        ELSE "Concerning - more vulnerabilities than historical average"

_analyze_vulnerability_trend(current, historical) ==
    LET current_total == RSum(Values(current))
        historical_avg == RDiv(RSum(Values(historical)), R(3))
    IN  IF RLt(current_total, RMul(historical_avg, Rat(7, 10)))
            THEN "Improving - fewer vulnerabilities than historical average"
        ELSE IF RLt(current_total, RMul(historical_avg, Rat(12, 10)))
            THEN "Stable - consistent with historical average"
        ELSE "Concerning - more vulnerabilities than historical average"

identify_vulnerabilities(self) ==
    LET current ==
            << <<"critical", Get(self.vulnerabilities, "critical_last_12m", R(0))>>,
               <<"high", Get(self.vulnerabilities, "high_last_12m", R(0))>>,
               <<"medium", Get(self.vulnerabilities, "medium_last_12m", R(0))>>,
               <<"low", Get(self.vulnerabilities, "low_last_12m", R(0))>> >>
        historical ==
            << <<"critical", Get(self.vulnerabilities, "critical_last_3y", R(0))>>,
               <<"high", Get(self.vulnerabilities, "high_last_3y", R(0))>>,
               <<"medium", Get(self.vulnerabilities, "medium_last_3y", R(0))>>,
               <<"low", Get(self.vulnerabilities, "low_last_3y", R(0))>> >>
    IN  [current_vulnerabilities |-> current,
         total_current |-> RSum(Values(current)),
         historical_vulnerabilities |-> historical,
         total_historical |-> RSum(Values(historical)),
         common_types |->
             Get(self.vulnerabilities, "common_vulnerability_types",
                 <<"SQL Injection", "XSS", "CSRF", "Authentication Issues">>),
         severity_distribution |-> _calculate_severity_distribution(current),
         trend |-> _analyze_vulnerability_trend(current, historical)]

\* assessment['readiness_level'] raises KeyError for an entry without that key.
RecommendationsRaise(compliance) ==
    \E i \in DOMAIN compliance : "readiness_level" \notin DOMAIN compliance[i][2]

_generate_security_recommendations(security_score, compliance, vulnerabilities) ==
    LET current_critical == Get(vulnerabilities.current_vulnerabilities, "critical", R(0))
        not_ready == SelectSeq(compliance, LAMBDA c : c[2].readiness_level = "Not Ready")
        recommendations ==
            (IF RLt(security_score.overall_security_score, R(70))
             THEN << <<"Improve overall security posture - score below acceptable threshold">> >>
             ELSE <<>>)
            \o (IF RLt(R(0), current_critical)
                THEN << <<"Address ", current_critical,
                          " critical vulnerabilities immediately">> >>
                ELSE <<>>)
            \o (IF RLt(security_score.patch_responsiveness, R(60))
                THEN << <<"Improve vulnerability patch response time">> >>
                ELSE <<>>)
            \o (IF RLt(security_score.security_features_score, R(70))
                THEN << <<"Implement additional security features (MFA, audit logging, RBAC)">> >>
                ELSE <<>>)
            \o [i \in DOMAIN not_ready |->
                   <<not_ready[i][1], ": ", not_ready[i][2].recommendation>>]
    IN  IF recommendations = <<>>
        THEN << <<"Security posture is strong - continue monitoring and maintenance">> >>
        ELSE recommendations

_determine_risk_level(security_score) ==
    IF RLe(R(85), security_score) THEN "Low Risk - Strong security posture"
    ELSE IF RLe(R(70), security_score) THEN "Medium Risk - Acceptable with monitoring"
    ELSE IF RLe(R(55), security_score) THEN "High Risk - Security improvements needed"
    ELSE "Critical Risk - Not recommended for production use"

\* The value generate_security_report returns when nothing raises.
generate_security_report(self) ==
    LET security_score == calculate_security_score(self)
        compliance == assess_compliance(self)
        vulnerabilities == identify_vulnerabilities(self)
    IN  [kind |-> "report",
         technology |-> self.technology,
         security_score |-> security_score,
         compliance_assessment |-> compliance,
         vulnerability_analysis |-> vulnerabilities,
         recommendations |->
             _generate_security_recommendations(security_score, compliance,
                                                vulnerabilities),
         overall_risk_level |->
             _determine_risk_level(security_score.overall_security_score)]

(***************************************************************************)
(* Inputs of the security assessor.                                        *)
(***************************************************************************)
AllTrue(features) == [i \in DOMAIN features |-> <<features[i], TRUE>>]

VulnerabilityData ==
    { <<>>,
      << <<"critical_last_12m", R(1)>>, <<"high_last_12m", R(2)>>,
         <<"medium_last_12m", R(3)>>, <<"low_last_12m", R(5)>>,
         <<"critical_last_3y", R(2)>>, <<"high_last_3y", R(9)>>,
         <<"medium_last_3y", R(12)>>, <<"low_last_3y", R(10)>>,
         <<"avg_critical_patch_days", R(10)>>, <<"avg_high_patch_days", R(20)>>,
         <<"has_security_team", TRUE>>, <<"years_since_major_incident", R(2)>> >>,
      << <<"critical_last_12m", R(6)>>, <<"high_last_12m", R(20)>>,
         <<"low_last_12m", R(7)>>, <<"high_last_3y", R(30)>>,
         <<"avg_critical_patch_days", R(90)>>, <<"avg_high_patch_days", R(120)>>,
         <<"years_since_major_incident", R(0)>> >>,
      << <<"avg_critical_patch_days", R(3)>>, <<"avg_high_patch_days", R(7)>>,
         <<"has_security_team", TRUE>>, <<"has_security_certifications", TRUE>>,
         <<"has_bug_bounty_program", TRUE>>, <<"security_audits_per_year", R(4)>>,
         <<"low_last_3y", R(6)>> >>,
      << <<"critical_last_12m", R(-1)>>, <<"medium_last_12m", R(200)>>,
         <<"avg_critical_patch_days", R(45)>>, <<"avg_high_patch_days", R(75)>>,
         <<"years_since_major_incident", R(0)>>,
         <<"security_audits_per_year", R(-9)>> >> }

SecurityFeatureSets ==
    { <<>>,
      AllTrue(essential_features) \o AllTrue(advanced_features),
      AllTrue(<<"data_privacy", "consent_management", "data_portability",
                "right_to_deletion", "audit_logging", "access_controls",
                "encryption_at_rest", "encryption_in_transit", "backup_recovery",
                "phi_protection", "payment_data_encryption", "network_security",
                "vulnerability_management", "authentication", "authorization",
                "input_validation", "mfa_support", "rbac">>),
      << <<"encryption_at_rest", TRUE>>, <<"encryption_in_transit", TRUE>>,
         <<"access_controls", TRUE>>, <<"audit_logging", FALSE>>,
         <<"data_privacy", TRUE>>, <<"consent_management", TRUE>>,
         <<"right_to_deletion", TRUE>>, <<"network_security", TRUE>> >>,
      AllTrue(<<"data_privacy", "consent_management", "data_portability",
                "right_to_deletion", "access_controls", "payment_data_encryption",
                "network_security", "authentication">>) }

ComplianceRequirements ==
    { <<>>, <<"GDPR">>, <<"SOC2", "HIPAA">>, <<"ISO27001">>,
      <<"PCI_DSS", "FedRAMP">>, <<"GDPR", "SOC2", "HIPAA", "PCI_DSS">> }

SecurityInputs ==
    [technology : {"Express"}, vulnerabilities : VulnerabilityData,
     security_features : SecurityFeatureSets,
     compliance_requirements : ComplianceRequirements]

NoSecurityData ==
    [technology |-> "Unknown", vulnerabilities |-> <<>>, security_features |-> <<>>,
     compliance_requirements |-> <<>>]

NoSecResult == [kind |-> "none"]

(***************************************************************************)
(* EcosystemAnalyzer                                                       *)
(***************************************************************************)
\* EcosystemAnalyzer.__init__
EcosystemAnalyzer(data) ==
    [technology |-> data.technology,
     github_data |-> data.github,
     npm_data |-> data.npm,
     community_data |-> data.community,
     corporate_backing |-> data.corporate_backing]

_score_github_health(self) ==
    LET stars == Get(self.github_data, "stars", R(0))
        forks == Get(self.github_data, "forks", R(0))
        contributors == Get(self.github_data, "contributors", R(0))
        commits_last_month == Get(self.github_data, "commits_last_month", R(0))
        stars_points ==
            IF RLe(R(50000), stars) THEN R(30)
            ELSE IF RLe(R(20000), stars) THEN R(25)
            ELSE IF RLe(R(10000), stars) THEN R(20)
            ELSE IF RLe(R(5000), stars) THEN R(15)
            ELSE IF RLe(R(1000), stars) THEN R(10)
            ELSE RMax(R(0), RDiv(stars, R(100)))
        forks_points ==
            IF RLe(R(10000), forks) THEN R(20)
            ELSE IF RLe(R(5000), forks) THEN R(15)
            ELSE IF RLe(R(2000), forks) THEN R(12)
            ELSE IF RLe(R(1000), forks) THEN R(10)
            ELSE RMax(R(0), RDiv(forks, R(100)))
        contributors_points ==
            IF RLe(R(500), contributors) THEN R(20)
            ELSE IF RLe(R(200), contributors) THEN R(15)
            ELSE IF RLe(R(100), contributors) THEN R(12)
            ELSE IF RLe(R(50), contributors) THEN R(10)
            ELSE RMax(R(0), RDiv(contributors, R(5)))
        commits_points ==
            IF RLe(R(100), commits_last_month) THEN R(30)
            ELSE IF RLe(R(50), commits_last_month) THEN R(25)
            ELSE IF RLe(R(25), commits_last_month) THEN R(20)
            ELSE IF RLe(R(10), commits_last_month) THEN R(15)
            ELSE RMax(R(0), RMul(commits_last_month, Rat(15, 10)))
    IN  RMin(R(100), RSum(<<stars_points, forks_points, contributors_points,
                            commits_points>>))

\* version.split('.')[0]: the characters before the first dot.
RECURSIVE FirstField(_)
FirstField(version) ==
    IF version = <<>> \/ Head(version) = "." THEN <<>>
    ELSE <<Head(version)>> \o FirstField(Tail(version))

Digits == <<"0", "1", "2", "3", "4", "5", "6", "7", "8", "9">>

DigitValue(c) == (CHOOSE i \in DOMAIN Digits : Digits[i] = c) - 1

IsNumber(s) == s # <<>> /\ \A i \in DOMAIN s : \E j \in DOMAIN Digits : Digits[j] = s[i]

\* int(s) of a string of decimal digits.
RECURSIVE ParseInt(_)
ParseInt(s) ==
    IF s = <<>> THEN 0
    ELSE 10 * ParseInt(SubSeq(s, 1, Len(s) - 1)) + DigitValue(s[Len(s)])

\* int(version.split('.')[0]) raises ValueError when the first field of a
\* non-empty version is not a number.
VersionRaises(self) ==
    LET version == Get(self.npm_data, "version", <<"0", ".", "0", ".", "1">>)
    IN  self.npm_data # <<>> /\ version # <<>> /\ ~IsNumber(FirstField(version))

_score_npm_health(self) ==
    IF self.npm_data = <<>> THEN R(50)
    ELSE
    LET weekly_downloads == Get(self.npm_data, "weekly_downloads", R(0))
        version == Get(self.npm_data, "version", <<"0", ".", "0", ".", "1">>)
        major_version == IF version # <<>> THEN ParseInt(FirstField(version)) ELSE 0
        dependencies == Get(self.npm_data, "dependencies_count", R(50))
        days_since_publish == Get(self.npm_data, "days_since_last_publish", R(365))
        downloads_points ==
            IF RLe(R(1000000), weekly_downloads) THEN R(40)
            ELSE IF RLe(R(500000), weekly_downloads) THEN R(35)
            ELSE IF RLe(R(100000), weekly_downloads) THEN R(30)
            ELSE IF RLe(R(50000), weekly_downloads) THEN R(25)
            ELSE IF RLe(R(10000), weekly_downloads) THEN R(20)
            ELSE RMax(R(0), RDiv(weekly_downloads, R(500)))
        version_points ==
            IF major_version >= 5 THEN R(20)
            ELSE IF major_version >= 3 THEN R(15)
            ELSE IF major_version >= 1 THEN R(10)
            ELSE R(5)
        dependencies_points ==
            IF RLe(dependencies, R(10)) THEN R(20)
            ELSE IF RLe(dependencies, R(25)) THEN R(15)
            ELSE IF RLe(dependencies, R(50)) THEN R(10)
            ELSE RMax(R(0), RSub(R(20), RDiv(RSub(dependencies, R(50)), R(10))))
        publish_points ==
            IF RLe(days_since_publish, R(30)) THEN R(20)
            ELSE IF RLe(days_since_publish, R(90)) THEN R(15)
            ELSE IF RLe(days_since_publish, R(180)) THEN R(10)
            ELSE IF RLe(days_since_publish, R(365)) THEN R(5)
            ELSE R(0)
    IN  RMin(R(100), RSum(<<downloads_points, version_points, dependencies_points,
                            publish_points>>))

_score_community_health(self) ==
    LET so_questions == Get(self.community_data, "stackoverflow_questions", R(0))
        job_postings == Get(self.community_data, "job_postings", R(0))
        tutorials == Get(self.community_data, "tutorials_count", R(0))
        forum_members == Get(self.community_data, "forum_members", R(0))
        so_points ==
            IF RLe(R(50000), so_questions) THEN R(25)
            ELSE IF RLe(R(20000), so_questions) THEN R(20)
            ELSE IF RLe(R(10000), so_questions) THEN R(15)
            ELSE IF RLe(R(5000), so_questions) THEN R(10)
            ELSE RMax(R(0), RDiv(so_questions, R(500)))
        job_points ==
            IF RLe(R(5000), job_postings) THEN R(25)
            ELSE IF RLe(R(2000), job_postings) THEN R(20)
            ELSE IF RLe(R(1000), job_postings) THEN R(15)
            ELSE IF RLe(R(500), job_postings) THEN R(10)
            ELSE RMax(R(0), RDiv(job_postings, R(50)))
        tutorial_points ==
            IF RLe(R(1000), tutorials) THEN R(25)
            ELSE IF RLe(R(500), tutorials) THEN R(20)
            ELSE IF RLe(R(200), tutorials) THEN R(15)
            ELSE IF RLe(R(100), tutorials) THEN R(10)
            ELSE RMax(R(0), RDiv(tutorials, R(10)))
        forum_points ==
            IF RLe(R(50000), forum_members) THEN R(25)
            ELSE IF RLe(R(20000), forum_members) THEN R(20)
            ELSE IF RLe(R(10000), forum_members) THEN R(15)
            ELSE IF RLe(R(5000), forum_members) THEN R(10)
            ELSE RMax(R(0), RDiv(forum_members, R(500)))
    IN  RMin(R(100), RSum(<<so_points, job_points, tutorial_points, forum_points>>))

_score_corporate_backing(self) ==
    LET backing_type == Get(self.corporate_backing, "type", "none")
        scores == << <<"major_tech_company", R(100)>>, <<"established_company", R(80)>>,
                     <<"startup_backed", R(60)>>, <<"community_led", R(40)>>,
                     <<"none", R(20)>> >>
        base_score == Get(scores, backing_type, R(40))
        funding == Get(self.corporate_backing, "funding_millions", R(0))
    IN  IF RLe(R(100), funding) THEN RMin(R(100), RAdd(base_score, R(20)))
        ELSE IF RLe(R(50), funding) THEN RMin(R(100), RAdd(base_score, R(10)))
        ELSE IF RLe(R(10), funding) THEN RMin(R(100), RAdd(base_score, R(5)))
        ELSE base_score

_score_maintenance_health(self) ==
    LET avg_response_hours == Get(self.github_data, "avg_issue_response_hours", R(168))
        resolution_rate == Get(self.github_data, "issue_resolution_rate", Rat(1, 2))
        releases_per_year == Get(self.github_data, "releases_per_year", R(4))
        active_maintainers == Get(self.github_data, "active_maintainers", R(1))
        response_points ==
            IF RLe(avg_response_hours, R(24)) THEN R(30)
            ELSE IF RLe(avg_response_hours, R(48)) THEN R(25)
            ELSE IF RLe(avg_response_hours, R(168)) THEN R(20)
            ELSE IF RLe(avg_response_hours, R(336)) THEN R(10)
            ELSE R(5)
        resolution_points == RMul(resolution_rate, R(30))
        release_points ==
            IF RLe(R(12), releases_per_year) THEN R(20)
            ELSE IF RLe(R(6), releases_per_year) THEN R(15)
            ELSE IF RLe(R(4), releases_per_year) THEN R(10)
            ELSE IF RLe(R(2), releases_per_year) THEN R(5)
            ELSE R(0)
        maintainer_points ==
            IF RLe(R(10), active_maintainers) THEN R(20)
            ELSE IF RLe(R(5), active_maintainers) THEN R(15)
            ELSE IF RLe(R(3), active_maintainers) THEN R(10)
            ELSE IF RLe(R(1), active_maintainers) THEN R(5)
            ELSE R(0)
    IN  RMin(R(100), RSum(<<response_points, resolution_points, release_points,
                            maintainer_points>>))

\* The value calculate_health_score returns when the npm version parses.
calculate_health_score(self) ==
    LET scores == << <<"github_health", _score_github_health(self)>>,
                     <<"npm_health", _score_npm_health(self)>>,
                     <<"community_health", _score_community_health(self)>>,
                     <<"corporate_backing", _score_corporate_backing(self)>>,
                     <<"maintenance_health", _score_maintenance_health(self)>> >>
        health_weights ==
            << <<"github_health", Rat(25, 100)>>, <<"npm_health", Rat(20, 100)>>,
               <<"community_health", Rat(20, 100)>>, <<"corporate_backing", Rat(15, 100)>>,
               <<"maintenance_health", Rat(20, 100)>> >>
        overall == RSum([i \in DOMAIN scores |->
                            RMul(scores[i][2], Get(health_weights, scores[i][1], R(0)))])
    IN  Put(scores, "overall_health", overall)

\* The viability level and risk level assess_viability derives from the
\* overall health.
viability_level(overall_health) ==
    IF RLe(R(80), overall_health)
    THEN [viability |-> "Excellent - Strong long-term viability", risk_level |-> "Low"]
    ELSE IF RLe(R(65), overall_health)
    THEN [viability |-> "Good - Solid viability with minor concerns",
          risk_level |-> "Low-Medium"]
    ELSE IF RLe(R(50), overall_health)
    THEN [viability |-> "Moderate - Viable but with notable risks",
          risk_level |-> "Medium"]
    ELSE IF RLe(R(35), overall_health)
    THEN [viability |-> "Concerning - Significant viability risks",
          risk_level |-> "Medium-High"]
    ELSE [viability |-> "Poor - High risk of abandonment", risk_level |-> "High"]

\* _identify_viability_risks with the corporate-backing threshold at 50, as
\* for the other components.
_identify_viability_risks_uniform(self, health) ==
    LET risks ==
            (IF RLt(Get(health, "maintenance_health", R(0)), R(50))
             THEN <<"Low maintenance activity - slow issue resolution">> ELSE <<>>)
            \o (IF RLt(Get(health, "github_health", R(0)), R(50))
                THEN <<"Limited GitHub activity - smaller community">> ELSE <<>>)
            \o (IF RLt(Get(health, "corporate_backing", R(0)), R(50))
                THEN <<"Weak corporate backing - sustainability concerns">> ELSE <<>>)
            \o (IF RLt(Get(health, "npm_health", R(0)), R(50)) /\ self.npm_data # <<>>
                THEN <<"Low npm adoption - limited ecosystem">> ELSE <<>>)
            \o (IF RLt(Get(health, "community_health", R(0)), R(50))
                THEN <<"Small community - limited resources and support">> ELSE <<>>)
    IN  IF risks # <<>> THEN risks ELSE <<"No significant risks identified">>

_identify_viability_risks(self, health) ==
    LET risks ==
            (IF RLt(Get(health, "maintenance_health", R(0)), R(50))
             THEN <<"Low maintenance activity - slow issue resolution">> ELSE <<>>)
            \o (IF RLt(Get(health, "github_health", R(0)), R(50))
                THEN <<"Limited GitHub activity - smaller community">> ELSE <<>>)
            \o (IF RLt(Get(health, "corporate_backing", R(0)), R(40))
                THEN <<"Weak corporate backing - sustainability concerns">> ELSE <<>>)
            \o (IF RLt(Get(health, "npm_health", R(0)), R(50)) /\ self.npm_data # <<>>
                THEN <<"Low npm adoption - limited ecosystem">> ELSE <<>>)
            \o (IF RLt(Get(health, "community_health", R(0)), R(50))
                THEN <<"Small community - limited resources and support">> ELSE <<>>)
    IN  IF risks # <<>> THEN risks ELSE <<"No significant risks identified">>

_identify_viability_strengths(self, health) ==
    LET strengths ==
            (IF RLe(R(70), Get(health, "maintenance_health", R(0)))
             THEN <<"Active maintenance with responsive issue resolution">> ELSE <<>>)
            \o (IF RLe(R(70), Get(health, "github_health", R(0)))
                THEN <<"Strong GitHub presence with active community">> ELSE <<>>)
            \o (IF RLe(R(70), Get(health, "corporate_backing", R(0)))
                THEN <<"Strong corporate backing ensures sustainability">> ELSE <<>>)
            \o (IF RLe(R(70), Get(health, "npm_health", R(0))) /\ self.npm_data # <<>>
                THEN <<"High npm adoption with stable releases">> ELSE <<>>)
            \o (IF RLe(R(70), Get(health, "community_health", R(0)))
                THEN <<"Large, active community with extensive resources">> ELSE <<>>)
    IN  IF strengths # <<>> THEN strengths ELSE <<"Baseline viability maintained">>

\* _generate_viability_recommendation without the band from 65 to 80.
_generate_viability_recommendation_three_bands(health_score, risks) ==
    IF RLe(R(80), health_score)
    THEN "Recommended for long-term adoption - strong ecosystem support"
    ELSE IF RLe(R(50), health_score)
    THEN "Proceed with caution - have contingency plans"
    ELSE "Not recommended - consider alternatives with stronger ecosystems"

_generate_viability_recommendation(health_score, risks) ==
    IF RLe(R(80), health_score)
    THEN "Recommended for long-term adoption - strong ecosystem support"
    ELSE IF RLe(R(65), health_score)
    THEN "Suitable for adoption - monitor identified risks"
    ELSE IF RLe(R(50), health_score)
    THEN "Proceed with caution - have contingency plans"
    ELSE "Not recommended - consider alternatives with stronger ecosystems"

\* The value assess_viability returns when the npm version parses.
assess_viability(self) ==
    LET health == calculate_health_score(self)
        overall_health == Get(health, "overall_health", R(0))
        level == viability_level(overall_health)
        risks == _identify_viability_risks(self, health)
        strengths == _identify_viability_strengths(self, health)
    IN  [kind |-> "viability",
         overall_viability |-> level.viability,
         risk_level |-> level.risk_level,
         health_score |-> overall_health,
         risks |-> risks,
         strengths |-> strengths,
         recommendation |-> _generate_viability_recommendation(overall_health, risks)]

(***************************************************************************)
(* Inputs of the ecosystem analyzer.                                       *)
(***************************************************************************)
GithubData ==
    { <<>>,
      << <<"stars", R(60000)>>, <<"forks", R(12000)>>, <<"contributors", R(600)>>,
         <<"commits_last_month", R(120)>>, <<"avg_issue_response_hours", R(12)>>,
         <<"issue_resolution_rate", Rat(9, 10)>>, <<"releases_per_year", R(12)>>,
         <<"active_maintainers", R(10)>> >>,
      << <<"stars", R(12000)>>, <<"forks", R(900)>>, <<"contributors", R(120)>>,
         <<"commits_last_month", R(30)>>, <<"avg_issue_response_hours", R(40)>>,
         <<"issue_resolution_rate", Rat(7, 10)>>, <<"releases_per_year", R(6)>>,
         <<"active_maintainers", R(4)>> >>,
      << <<"stars", R(-300)>>, <<"commits_last_month", R(4)>>,
         <<"avg_issue_response_hours", R(500)>>,
         <<"issue_resolution_rate", R(-2)>>, <<"releases_per_year", R(1)>>,
         <<"active_maintainers", R(0)>> >>,
      << <<"stars", R(800)>>, <<"contributors", R(20)>>,
         <<"issue_resolution_rate", R(3)>>, <<"releases_per_year", R(3)>>,
         <<"active_maintainers", R(6)>> >> }

NpmData ==
    { <<>>,
      << <<"weekly_downloads", R(2000000)>>, <<"version", <<"1", "8", ".", "2", ".", "0">> >>,
         <<"dependencies_count", R(3)>>, <<"days_since_last_publish", R(14)>> >>,
      << <<"weekly_downloads", R(4000)>>, <<"dependencies_count", R(120)>>,
         <<"days_since_last_publish", R(400)>> >>,
      << <<"weekly_downloads", R(60000)>>, <<"version", <<"v", "3", ".", "1">> >> >> }

CommunityData ==
    { <<>>,
      << <<"stackoverflow_questions", R(60000)>>, <<"job_postings", R(6000)>>,
         <<"tutorials_count", R(1200)>>, <<"forum_members", R(70000)>> >>,
      << <<"stackoverflow_questions", R(12000)>>, <<"job_postings", R(400)>>,
         <<"tutorials_count", R(250)>>, <<"forum_members", R(6000)>> >> }

CorporateBacking ==
    { <<>>,
      << <<"type", "major_tech_company">>, <<"funding_millions", R(200)>> >>,
      << <<"type", "community_led">> >>,
      << <<"type", "startup_backed">>, <<"funding_millions", R(15)>> >> }

EcosystemInputs ==
    { [technology |-> "React", github |-> g, npm |-> n, community |-> c,
       corporate_backing |-> b] :
        g \in GithubData, n \in NpmData, c \in CommunityData, b \in CorporateBacking }

NoEcosystemData ==
    [technology |-> "Unknown", github |-> <<>>, npm |-> <<>>, community |-> <<>>,
     corporate_backing |-> <<>>]

NoEcoResult == [kind |-> "none"]

(***************************************************************************)
(* Text.  A Python str is a string; the operators below are the str        *)
(* methods and format specifications the code uses.                        *)
(***************************************************************************)
Char(s, i) == SubSeq(s, i, i)
Rest(s, i) == SubSeq(s, i, Len(s))

\* s[:n]
Prefix(s, n) == SubSeq(s, 1, IF n < Len(s) THEN n ELSE Len(s))

LowerCase == "abcdefghijklmnopqrstuvwxyz"
UpperCase == "ABCDEFGHIJKLMNOPQRSTUVWXYZ"

Position(c, alphabet) ==
    IF \E i \in 1..Len(alphabet) : Char(alphabet, i) = c
    THEN CHOOSE i \in 1..Len(alphabet) : Char(alphabet, i) = c
    ELSE 0

IsDigit(c) == Position(c, "0123456789") > 0
IsAlpha(c) == Position(c, LowerCase) > 0 \/ Position(c, UpperCase) > 0
IsWordChar(c) == IsAlpha(c) \/ IsDigit(c) \/ c = "_"
IsSpace(c) == c \in {" ", "\t", "\n", "\r", "\f"}

LowerChar(c) == IF Position(c, UpperCase) > 0 THEN Char(LowerCase, Position(c, UpperCase)) ELSE c
UpperChar(c) == IF Position(c, LowerCase) > 0 THEN Char(UpperCase, Position(c, LowerCase)) ELSE c

\* str.lower and str.upper
RECURSIVE lower(_)
lower(s) == IF s = "" THEN "" ELSE LowerChar(Char(s, 1)) \o lower(Rest(s, 2))

RECURSIVE upper(_)
upper(s) == IF s = "" THEN "" ELSE UpperChar(Char(s, 1)) \o upper(Rest(s, 2))

\* str.title: a letter that follows a letter is lowered, any other letter raised.
RECURSIVE TitleFrom(_, _)
TitleFrom(s, after_letter) ==
    IF s = "" THEN ""
    ELSE (IF after_letter THEN LowerChar(Char(s, 1)) ELSE UpperChar(Char(s, 1)))
         \o TitleFrom(Rest(s, 2), IsAlpha(Char(s, 1)))

title(s) == TitleFrom(s, FALSE)

\* str.replace(old, new) for a one-character old.
RECURSIVE replace(_, _, _)
replace(s, old, new) ==
    IF s = "" THEN ""
    ELSE (IF Char(s, 1) = old THEN new ELSE Char(s, 1)) \o replace(Rest(s, 2), old, new)

RECURSIVE lstrip(_)
lstrip(s) == IF s # "" /\ IsSpace(Char(s, 1)) THEN lstrip(Rest(s, 2)) ELSE s

RECURSIVE rstrip(_)
rstrip(s) ==
    IF s # "" /\ IsSpace(Char(s, Len(s))) THEN rstrip(SubSeq(s, 1, Len(s) - 1)) ELSE s

strip(s) == rstrip(lstrip(s))

\* sub in s
In(sub, s) ==
    \E i \in 1..(Len(s) - Len(sub) + 1) : SubSeq(s, i, i + Len(sub) - 1) = sub

startswith(s, prefix) == Len(prefix) <= Len(s) /\ SubSeq(s, 1, Len(prefix)) = prefix
endswith(s, suffix) ==
    Len(suffix) <= Len(s) /\ SubSeq(s, Len(s) - Len(suffix) + 1, Len(s)) = suffix

\* s.split(sep) for a one-character sep: always at least one field.
RECURSIVE split(_, _)
split(s, sep) ==
    IF ~In(sep, s) THEN <<s>>
    ELSE LET i == CHOOSE j \in 1..Len(s) :
                      Char(s, j) = sep /\ \A k \in 1..(j - 1) : Char(s, k) # sep
         IN  <<SubSeq(s, 1, i - 1)>> \o split(Rest(s, i + 1), sep)

\* sep.join(parts)
RECURSIVE join(_, _)
join(sep, parts) ==
    IF parts = <<>> THEN ""
    ELSE IF Len(parts) = 1 THEN parts[1]
    ELSE parts[1] \o sep \o join(sep, Tail(parts))

\* c * n
RECURSIVE Repeat(_, _)
Repeat(c, n) == IF n <= 0 THEN "" ELSE c \o Repeat(c, n - 1)

\* f"{s:<{width}}"
ljust(s, width) == s \o Repeat(" ", width - Len(s))

ZeroPad(i, width) == Repeat("0", width - Len(ToString(i))) \o ToString(i)

\* round(x * scale) to an integer, ties to even.
RoundScaled(x, scale) ==
    LET t == x.n * scale
        q == t \div x.d
        r == t - q * x.d
    IN  IF 2 * r < x.d THEN q
        ELSE IF 2 * r > x.d THEN q + 1
        ELSE IF q % 2 = 0 THEN q ELSE q + 1

\* Thousands separators of a natural number.
RECURSIVE Grouped(_)
Grouped(i) ==
    IF i < 1000 THEN ToString(i) ELSE Grouped(i \div 1000) \o "," \o ZeroPad(i % 1000, 3)

\* f"{x:.{digits}f}", and f"{x:,.{digits}f}" when grouping.
FixedText(x, digits, grouping) ==
    LET scale == 10 ^ digits
        a == Abs(RoundScaled(x, scale))
    IN  (IF x.n < 0 THEN "-" ELSE "")
        \o (IF grouping THEN Grouped(a \div scale) ELSE ToString(a \div scale))
        \o (IF digits = 0 THEN "" ELSE "." \o ZeroPad(a % scale, digits))

\* f"{x:,}" and f"{x}" of an int.
Comma(x) == (IF x.n < 0 THEN "-" ELSE "") \o Grouped(Abs(x.n))
Str(x) == ToString(x.n)

\* dict.get on a dictionary with fixed keys (a record); {} is the empty tuple.
IsEmpty(d) == DOMAIN d = {}
RGet(d, k, default) ==
    IF IsEmpty(d) THEN default ELSE IF k \in DOMAIN d THEN d[k] ELSE default

(***************************************************************************)
(* EcosystemAnalyzer: the report.                                          *)
(***************************************************************************)
_format_github_metrics(self) ==
    [stars |-> Comma(Get(self.github_data, "stars", R(0))),
     forks |-> Comma(Get(self.github_data, "forks", R(0))),
     contributors |-> Comma(Get(self.github_data, "contributors", R(0))),
     commits_last_month |-> Get(self.github_data, "commits_last_month", R(0)),
     open_issues |-> Get(self.github_data, "open_issues", R(0)),
     issue_resolution_rate |->
         FixedText(RMul(Get(self.github_data, "issue_resolution_rate", R(0)), R(100)),
                   1, FALSE) \o "%"]

_format_npm_metrics(self) ==
    [weekly_downloads |-> Comma(Get(self.npm_data, "weekly_downloads", R(0))),
     version |-> Get(self.npm_data, "version", <<"N", "/", "A">>),
     dependencies |-> Get(self.npm_data, "dependencies_count", R(0)),
     days_since_publish |-> Get(self.npm_data, "days_since_last_publish", R(0))]

_format_community_metrics(self) ==
    [stackoverflow_questions |->
         Comma(Get(self.community_data, "stackoverflow_questions", R(0))),
     job_postings |-> Comma(Get(self.community_data, "job_postings", R(0))),
     tutorials |-> Get(self.community_data, "tutorials_count", R(0)),
     forum_members |-> Comma(Get(self.community_data, "forum_members", R(0)))]

\* npm_metrics is None (the empty tuple) without npm data, else a 1-tuple.
generate_ecosystem_report(self) ==
    [technology |-> self.technology,
     health_scores |-> calculate_health_score(self),
     viability_assessment |-> assess_viability(self),
     github_metrics |-> _format_github_metrics(self),
     npm_metrics |-> IF self.npm_data # <<>> THEN <<_format_npm_metrics(self)>> ELSE <<>>,
     community_metrics |-> _format_community_metrics(self)]

(***************************************************************************)
(* ReportGenerator                                                         *)
(*                                                                         *)
(* report_data is a dictionary; an artifact is the record its analyzer     *)
(* returns, or the empty tuple for {} and [].  An optional argument is the *)
(* empty tuple for None and a 1-tuple otherwise.                           *)
(***************************************************************************)
\* Variant of _detect_context that takes a redirected stdout for the fixed-width
\* case.
_detect_context_redirected(env) ==
    IF env.CLAUDE_DESKTOP # <<>> /\ env.CLAUDE_DESKTOP[1] # "" THEN "desktop"
    ELSE IF env.isatty THEN "desktop"
    ELSE "cli"

\* env.CLAUDE_DESKTOP is os.getenv('CLAUDE_DESKTOP'), env.isatty is os.isatty(1).
_detect_context(env) ==
    IF env.CLAUDE_DESKTOP # <<>> /\ env.CLAUDE_DESKTOP[1] # "" THEN "desktop"
    ELSE IF env.isatty THEN "cli"
    ELSE "desktop"

\* ReportGenerator.__init__: output_context or self._detect_context()
ReportGenerator(data, context, env) ==
    [report_data |-> data,
     output_context |-> IF context # <<>> /\ context[1] # "" THEN context[1]
                        ELSE _detect_context(env)]

\* datetime.now().strftime("%Y-%m-%d %H:%M"); now is the minute of the day.
_get_timestamp(now) ==
    "2026-11-02 " \o ZeroPad(now \div 60, 2) \o ":" \o ZeroPad(now % 60, 2)

First3(list) == SubSeq(list, 1, IF Len(list) < 3 THEN Len(list) ELSE 3)

Bullets(items) == join("", [i \in DOMAIN items |-> "- " \o items[i] \o "\n"])

generate_executive_summary(self) ==
    LET recommendation == Get(self.report_data, "recommendation", <<>>)
        pros == First3(Get(recommendation, "pros", <<>>))
        cons == First3(Get(recommendation, "cons", <<>>))
        decision_factors == First3(Get(self.report_data, "decision_factors", <<>>))
    IN  "# Technology Evaluation: "
        \o join(", ", First3(Get(self.report_data, "technologies", <<>>))) \o "\n"
        \o "## Recommendation\n"
        \o "**" \o Get(recommendation, "text", "No recommendation available") \o "**\n"
        \o "*Confidence: " \o FixedText(Get(recommendation, "confidence", R(0)), 0, FALSE)
        \o "%*\n"
        \o (IF pros # <<>> THEN "\n### Top Strengths\n" \o Bullets(pros) ELSE "")
        \o (IF cons # <<>> THEN "\n### Key Concerns\n" \o Bullets(cons) ELSE "")
        \o (IF decision_factors # <<>>
            THEN "\n### Decision Factors\n"
                 \o join("", [i \in DOMAIN decision_factors |->
                        "- **"
                        \o title(replace(Get(decision_factors[i], "category", "Unknown"),
                                         "_", " "))
                        \o "**: " \o Get(decision_factors[i], "best_performer", "Unknown")
                        \o "\n"])
            ELSE "")
        \o "\n---\n"
        \o "*For detailed analysis, request full report sections*\n"

_get_available_sections(self) ==
    <<"executive_summary">>
    \o SelectSeq(<<"comparison_matrix", "tco_analysis", "ecosystem_health",
                   "security_assessment", "migration_analysis",
                   "performance_benchmarks">>,
                 LAMBDA name : Has(self.report_data, name))

_generate_title(self, now) ==
    LET tech_names == join(" vs ", Get(self.report_data, "technologies", <<>>))
        use_case_text == Get(self.report_data, "use_case", "General Purpose")
    IN  IF self.output_context = "desktop"
        THEN "# Technology Stack Evaluation Report\n\n"
             \o "**Technologies**: " \o tech_names \o "\n"
             \o "**Use Case**: " \o use_case_text \o "\n"
             \o "**Generated**: " \o _get_timestamp(now) \o "\n\n"
             \o "---\n"
        ELSE Repeat("=", 80) \o "\n"
             \o "TECHNOLOGY STACK EVALUATION REPORT\n"
             \o Repeat("=", 80) \o "\n\n"
             \o "Technologies: " \o tech_names \o "\n"
             \o "Use Case: " \o use_case_text \o "\n"
             \o "Generated: " \o _get_timestamp(now) \o "\n\n"
             \o Repeat("=", 80) \o "\n"

\* list(matrix_data[0].get('scores', {}).keys())
MatrixTechNames(matrix_data) ==
    LET first_scores == Get(matrix_data[1], "scores", <<>>)
    IN  [i \in DOMAIN first_scores |-> first_scores[i][1]]

_render_matrix_desktop(matrix_data) ==
    IF matrix_data = <<>> THEN ""
    ELSE
    LET tech_names == MatrixTechNames(matrix_data)
        header == "| Category | Weight |"
                  \o join("", [t \in DOMAIN tech_names |-> " " \o tech_names[t] \o " |"])
        separator == "|----------|--------|"
                     \o join("", [t \in DOMAIN tech_names |-> "--------|"])
        rows == [r \in DOMAIN matrix_data |->
                    "| " \o title(replace(Get(matrix_data[r], "category", ""), "_", " "))
                    \o " | " \o Get(matrix_data[r], "weight", "") \o " |"
                    \o join("", [t \in DOMAIN tech_names |->
                           " " \o Get(Get(matrix_data[r], "scores", <<>>),
                                      tech_names[t], "0.0") \o " |"])]
    IN  join("\n", <<"## Comparison Matrix\n", header, separator>> \o rows)

_render_matrix_cli(matrix_data) ==
    IF matrix_data = <<>> THEN ""
    ELSE
    LET tech_names == MatrixTechNames(matrix_data)
        header == ljust("Category", 25) \o " " \o ljust("Weight", 8)
                  \o join("", [t \in DOMAIN tech_names |->
                         " " \o ljust(Prefix(tech_names[t], 9), 10)])
        rows == [r \in DOMAIN matrix_data |->
                    ljust(Prefix(title(replace(Get(matrix_data[r], "category", ""),
                                               "_", " ")), 24), 25)
                    \o " " \o ljust(Get(matrix_data[r], "weight", ""), 8)
                    \o join("", [t \in DOMAIN tech_names |->
                           " " \o ljust(Get(Get(matrix_data[r], "scores", <<>>),
                                            tech_names[t], "0.0"), 10)])]
    IN  join("\n", <<"COMPARISON MATRIX", Repeat("=", 80), "", header, Repeat("-", 80)>>
                   \o rows)

_section_comparison_matrix(self) ==
    LET matrix_data == Get(self.report_data, "comparison_matrix", <<>>)
    IN  IF matrix_data = <<>> THEN ""
        ELSE IF self.output_context = "desktop" THEN _render_matrix_desktop(matrix_data)
        ELSE _render_matrix_cli(matrix_data)

\* Variant of _section_tco_analysis without the guard for a missing artifact.
_section_tco_analysis_unguarded(self) ==
    LET tco == Get(self.report_data, "tco_analysis", <<>>)
    IN  join("\n",
             <<"## Total Cost of Ownership Analysis\n",
               "**" \o ToString(RGet(tco, "timeline_years", 5)) \o "-Year Total**: $"
               \o FixedText(RGet(tco, "total_tco", R(0)), 2, TRUE),
               "**Average Yearly**: $"
               \o FixedText(RGet(tco, "average_yearly_cost", R(0)), 2, TRUE) \o "\n",
               "### Initial Costs: $"
               \o FixedText(RGet(RGet(tco, "initial_costs", <<>>), "total_initial",
                                 R(0)), 2, TRUE)>>)

_section_tco_analysis(self) ==
    LET tco == Get(self.report_data, "tco_analysis", <<>>)
        operational == RGet(tco, "operational_costs", <<>>)
        yearly_totals == RGet(operational, "total_yearly", <<>>)
    IN  IF IsEmpty(tco) THEN ""
        ELSE join("\n",
             <<"## Total Cost of Ownership Analysis\n",
               "**" \o ToString(RGet(tco, "timeline_years", 5)) \o "-Year Total**: $"
               \o FixedText(RGet(tco, "total_tco", R(0)), 2, TRUE),
               "**Average Yearly**: $"
               \o FixedText(RGet(tco, "average_yearly_cost", R(0)), 2, TRUE) \o "\n",
               "### Initial Costs: $"
               \o FixedText(RGet(RGet(tco, "initial_costs", <<>>), "total_initial",
                                 R(0)), 2, TRUE)>>
             \o (IF IsEmpty(operational) THEN <<>>
                 ELSE <<"\n### Operational Costs (Yearly)">>
                      \o [y \in DOMAIN yearly_totals |->
                             "- Year " \o ToString(y) \o ": $"
                             \o FixedText(yearly_totals[y], 2, TRUE)]))

_section_ecosystem_health(self) ==
    LET ecosystem == Get(self.report_data, "ecosystem_health", <<>>)
        scores == SelectSeq(RGet(ecosystem, "health_scores", <<>>),
                            LAMBDA item : item[1] # "overall_health")
        viability == RGet(ecosystem, "viability_assessment", <<>>)
    IN  IF IsEmpty(ecosystem) THEN ""
        ELSE join("\n",
             <<"## Ecosystem Health Analysis\n",
               "**Overall Health Score**: "
               \o FixedText(RGet(ecosystem, "overall_health", R(0)), 1, FALSE) \o "/100\n",
               "### Health Metrics">>
             \o [i \in DOMAIN scores |->
                    "- " \o title(replace(scores[i][1], "_", " ")) \o ": "
                    \o FixedText(scores[i][2], 1, FALSE) \o "/100"]
             \o (IF IsEmpty(viability) THEN <<>>
                 ELSE <<"\n### Viability: " \o RGet(viability, "overall_viability", "Unknown"),
                        "**Risk Level**: " \o RGet(viability, "risk_level", "Unknown")>>))

_section_security_assessment(self) ==
    LET security == Get(self.report_data, "security_assessment", <<>>)
        security_score == RGet(security, "security_score", <<>>)
        compliance == RGet(security, "compliance_assessment", <<>>)
    IN  IF IsEmpty(security) THEN ""
        ELSE join("\n",
             <<"## Security & Compliance Assessment\n",
               "**Security Score**: "
               \o FixedText(RGet(security_score, "overall_security_score", R(0)), 1, FALSE)
               \o "/100 (Grade: " \o RGet(security_score, "security_grade", "N/A") \o ")\n">>
             \o (IF compliance = <<>> THEN <<>>
                 ELSE <<"### Compliance Readiness">>
                      \o [i \in DOMAIN compliance |->
                             "- **" \o compliance[i][1] \o "**: "
                             \o RGet(compliance[i][2], "readiness_level", "Unknown")
                             \o " ("
                             \o FixedText(RGet(compliance[i][2], "readiness_percentage",
                                               R(0)), 0, FALSE)
                             \o "%)"]))

_section_migration_analysis(self) ==
    LET migration == Get(self.report_data, "migration_analysis", <<>>)
        effort == RGet(migration, "effort_estimation", <<>>)
        approach == RGet(migration, "recommended_approach", <<>>)
    IN  IF IsEmpty(migration) THEN ""
        ELSE join("\n",
             <<"## Migration Path Analysis\n",
               "**Migration Complexity**: "
               \o FixedText(Get(RGet(migration, "complexity_analysis", <<>>),
                                "overall_complexity", R(0)), 1, FALSE)
               \o "/10\n">>
             \o (IF IsEmpty(effort) THEN <<>>
                 ELSE <<"### Effort Estimate",
                        "- Total Effort: "
                        \o FixedText(RGet(effort, "total_person_months", R(0)), 1, FALSE)
                        \o " person-months ("
                        \o FixedText(RGet(effort, "total_hours", R(0)), 0, FALSE)
                        \o " hours)",
                        "- Timeline: "
                        \o FixedText(RGet(RGet(effort, "estimated_timeline", <<>>),
                                          "calendar_months", R(0)), 1, FALSE)
                        \o " calendar months">>)
             \o (IF IsEmpty(approach) THEN <<>>
                 ELSE <<"\n### Recommended Approach: "
                        \o title(replace(RGet(approach, "approach", "Unknown"), "_", " ")),
                        RGet(approach, "description", "")>>))

_section_performance_benchmarks(self) ==
    LET benchmark == Get(self.report_data, "performance_benchmarks", <<>>)
        throughput == Get(benchmark, "throughput", <<>>)
        latency == Get(benchmark, "latency", <<>>)
    IN  IF benchmark = <<>> THEN ""
        ELSE join("\n",
             <<"## Performance Benchmarks\n">>
             \o (IF throughput = <<>> THEN <<>>
                 ELSE <<"### Throughput">>
                      \o [i \in DOMAIN throughput |->
                             "- " \o throughput[i][1] \o ": " \o Comma(throughput[i][2])
                             \o " requests/sec"])
             \o (IF latency = <<>> THEN <<>>
                 ELSE <<"\n### Latency (P95)">>
                      \o [i \in DOMAIN latency |->
                             "- " \o latency[i][1] \o ": " \o Str(latency[i][2]) \o "ms"]))

\* The value is None (the empty tuple) for a name without a generator.
_generate_section(self, section_name) ==
    CASE section_name = "executive_summary" -> <<generate_executive_summary(self)>>
      [] section_name = "comparison_matrix" -> <<_section_comparison_matrix(self)>>
      [] section_name = "tco_analysis" -> <<_section_tco_analysis(self)>>
      [] section_name = "ecosystem_health" -> <<_section_ecosystem_health(self)>>
      [] section_name = "security_assessment" -> <<_section_security_assessment(self)>>
      [] section_name = "migration_analysis" -> <<_section_migration_analysis(self)>>
      [] section_name = "performance_benchmarks" ->
             <<_section_performance_benchmarks(self)>>
      [] OTHER -> <<>>

generate_full_report(self, sections, now) ==
    LET names == IF sections = <<>> THEN _get_available_sections(self) ELSE sections[1]
        contents == [i \in DOMAIN names |-> _generate_section(self, names[i])]
        kept == SelectSeq(contents, LAMBDA content : content # <<>> /\ content[1] # "")
    IN  join("\n\n", <<_generate_title(self, now)>> \o [i \in DOMAIN kept |-> kept[i][1]])

(***************************************************************************)
(* FormatDetector                                                          *)
(*                                                                         *)
(* A parsed value is a record tagged with its Python type; a dictionary is *)
(* [kind |-> "dict", items |-> <<key, value>> pairs].  Characters are      *)
(* ASCII; json.loads is modelled for documents without nesting deeper than *)
(* the recursion limit.                                                    *)
(***************************************************************************)
PyStr(text) == [kind |-> "str", text |-> text]
PyBool(value) == [kind |-> "bool", value |-> value]
PyInt(value) == [kind |-> "int", value |-> value]
PyFloat(text) == [kind |-> "float", text |-> text]
PyList(items) == [kind |-> "list", items |-> items]
PyDict(items) == [kind |-> "dict", items |-> items]
StrList(texts) == PyList([i \in DOMAIN texts |-> PyStr(texts[i])])

\* FormatDetector.__init__
FormatDetector(input_text) ==
    [raw_input |-> strip(input_text), detected_format |-> <<>>, parsed_data |-> <<>>]

\* The first position from i on that holds no character passing Test.
Span(s, i, Test(_)) ==
    CHOOSE j \in i..(Len(s) + 1) :
        /\ j = Len(s) + 1 \/ ~Test(Char(s, j))
        /\ \A k \in i..(j - 1) : Test(Char(s, k))

At(s, i, word) == i + Len(word) - 1 <= Len(s) /\ SubSeq(s, i, i + Len(word) - 1) = word

JsonSpace(c) == c \in {" ", "\t", "\n", "\r"}
SkipWs(s, i) == Span(s, i, JsonSpace)
IsHex(c) == IsDigit(c) \/ Position(c, "abcdefABCDEF") > 0

\* The position after the closing quote of the JSON string whose content
\* starts at i, or 0 when there is none.
RECURSIVE JStringEnd(_, _)
JStringEnd(s, i) ==
    IF i > Len(s) THEN 0
    ELSE IF Char(s, i) = "\"" THEN i + 1
    ELSE IF Char(s, i) = "\\"
    THEN IF i + 1 > Len(s) THEN 0
         ELSE IF Char(s, i + 1) \in {"\"", "\\", "/", "b", "f", "n", "r", "t"}
              THEN JStringEnd(s, i + 2)
         ELSE IF Char(s, i + 1) = "u" /\ i + 5 <= Len(s)
                 /\ \A k \in (i + 2)..(i + 5) : IsHex(Char(s, k))
              THEN JStringEnd(s, i + 6)
         ELSE 0
    ELSE IF Char(s, i) \in {"\n", "\t", "\r", "\f"} THEN 0
    ELSE JStringEnd(s, i + 1)

\* The position after the JSON number that starts at i, or 0.
JNumberEnd(s, i) ==
    LET a == IF Char(s, i) = "-" THEN i + 1 ELSE i
        b == IF a <= Len(s) /\ Char(s, a) = "0" THEN a + 1 ELSE Span(s, a, IsDigit)
        c == IF b <= Len(s) /\ Char(s, b) = "." /\ Span(s, b + 1, IsDigit) > b + 1
             THEN Span(s, b + 1, IsDigit) ELSE b
        d == IF c <= Len(s) /\ Char(s, c) \in {"e", "E"}
             THEN IF c + 1 <= Len(s) /\ Char(s, c + 1) \in {"+", "-"} THEN c + 2 ELSE c + 1
             ELSE c
    IN  IF a > Len(s) \/ b = a THEN 0
        ELSE IF d > c /\ Span(s, d, IsDigit) > d THEN Span(s, d, IsDigit)
        ELSE c

\* The position after the JSON value that starts at i, or 0 when no value
\* starts there.
RECURSIVE JValueEnd(_, _), JArrayRest(_, _), JObjectRest(_, _)
JValueEnd(s, i) ==
    IF i > Len(s) THEN 0
    ELSE IF Char(s, i) = "{"
    THEN IF At(s, SkipWs(s, i + 1), "}") THEN SkipWs(s, i + 1) + 1
         ELSE JObjectRest(s, SkipWs(s, i + 1))
    ELSE IF Char(s, i) = "["
    THEN IF At(s, SkipWs(s, i + 1), "]") THEN SkipWs(s, i + 1) + 1
         ELSE JArrayRest(s, SkipWs(s, i + 1))
    ELSE IF Char(s, i) = "\"" THEN JStringEnd(s, i + 1)
    ELSE IF At(s, i, "true") \/ At(s, i, "null") THEN i + 4
    ELSE IF At(s, i, "false") THEN i + 5
    ELSE IF At(s, i, "NaN") THEN i + 3
    ELSE IF At(s, i, "Infinity") THEN i + 8
    ELSE IF At(s, i, "-Infinity") THEN i + 9
    ELSE JNumberEnd(s, i)

JArrayRest(s, i) ==
    LET e == JValueEnd(s, i)
        j == SkipWs(s, e)
    IN  IF e = 0 \/ j > Len(s) THEN 0
        ELSE IF Char(s, j) = "]" THEN j + 1
        ELSE IF Char(s, j) = "," THEN JArrayRest(s, SkipWs(s, j + 1))
        ELSE 0

JObjectRest(s, i) ==
    LET k == IF At(s, i, "\"") THEN JStringEnd(s, i + 1) ELSE 0
        c == SkipWs(s, k)
        e == JValueEnd(s, SkipWs(s, c + 1))
        j == SkipWs(s, e)
    IN  IF k = 0 \/ ~At(s, c, ":") \/ e = 0 \/ j > Len(s) THEN 0
        ELSE IF Char(s, j) = "}" THEN j + 1
        ELSE IF Char(s, j) = "," THEN JObjectRest(s, SkipWs(s, j + 1))
        ELSE 0

\* The members of a valid object from the key at i on: <<key, value text>>.
RECURSIVE JMembers(_, _)
JMembers(s, i) ==
    LET k == JStringEnd(s, i + 1)
        v == SkipWs(s, SkipWs(s, k) + 1)
        e == JValueEnd(s, v)
        j == SkipWs(s, e)
    IN  << <<SubSeq(s, i + 1, k - 2), SubSeq(s, v, e - 1)>> >>
        \o (IF Char(s, j) = "," THEN JMembers(s, SkipWs(s, j + 1)) ELSE <<>>)

\* The element texts of a valid array from the element at i on.
RECURSIVE JElements(_, _)
JElements(s, i) ==
    LET e == JValueEnd(s, i)
        j == SkipWs(s, e)
    IN  <<SubSeq(s, i, e - 1)>>
        \o (IF Char(s, j) = "," THEN JElements(s, SkipWs(s, j + 1)) ELSE <<>>)

RECURSIVE DictOf(_, _)
DictOf(members, d) ==
    IF members = <<>> THEN d
    ELSE DictOf(Tail(members),
                Put(d, members[1][1], [kind |-> "json", text |-> members[1][2]]))

\* json.loads succeeds
_is_json(self) ==
    LET e == JValueEnd(self.raw_input, SkipWs(self.raw_input, 1))
    IN  e # 0 /\ SkipWs(self.raw_input, e) = Len(self.raw_input) + 1

\* json.loads(raw_input) of valid JSON: a dict, a list of element texts, or a
\* scalar (number, string, true, false, null).
json_loads(raw) ==
    LET i == SkipWs(raw, 1)
        j == SkipWs(raw, i + 1)
    IN  IF Char(raw, i) = "{"
        THEN PyDict(IF Char(raw, j) = "}" THEN <<>> ELSE DictOf(JMembers(raw, j), <<>>))
        ELSE IF Char(raw, i) = "["
        THEN PyList(IF Char(raw, j) = "]" THEN <<>> ELSE JElements(raw, j))
        ELSE [kind |-> "scalar", text |-> raw]

\* re.match of the three yaml_patterns against one line.
YamlKeyValue(line) ==
    LET i == Span(line, 1, IsSpace)
        j == Span(line, i, LAMBDA c : IsWordChar(c) \/ c = "-")
    IN  j > i /\ At(line, Span(line, j, IsSpace), ":")

YamlListItem(line) ==
    LET i == Span(line, 1, IsSpace)
    IN  At(line, i, "-") /\ Span(line, i + 1, IsSpace) > i + 1

YamlTrailingColon(line) == At(line, 1, ":") /\ Span(line, 2, IsSpace) = Len(line) + 1

_is_yaml(self) ==
    LET lines == split(self.raw_input, "\n")
        yaml_line_count ==
            Cardinality({i \in DOMAIN lines :
                            \/ YamlKeyValue(lines[i])
                            \/ YamlListItem(lines[i])
                            \/ YamlTrailingColon(lines[i])})
    IN  /\ ~_is_json(self)
        /\ Len(lines) > 0
        /\ 2 * yaml_line_count > Len(lines)

\* re.search(r'https?://[^\s]+'): a URL starts at position i.
UrlAt(s, i) ==
    \/ At(s, i, "http://") /\ i + 7 <= Len(s) /\ ~IsSpace(Char(s, i + 7))
    \/ At(s, i, "https://") /\ i + 8 <= Len(s) /\ ~IsSpace(Char(s, i + 8))

_contains_urls(self) == \E i \in 1..Len(self.raw_input) : UrlAt(self.raw_input, i)

\* The value detect_format returns; it is stored in detected_format too.
detect_format(self) ==
    IF _is_json(self) THEN "json"
    ELSE IF _is_yaml(self) THEN "yaml"
    ELSE IF _contains_urls(self) THEN "url"
    ELSE "text"

\* int(value) and float(value) accept the text.
IntText(s) ==
    LET a == IF At(s, 1, "-") \/ At(s, 1, "+") THEN 2 ELSE 1
    IN  a <= Len(s) /\ Span(s, a, IsDigit) = Len(s) + 1

FloatText(s) ==
    LET a == IF At(s, 1, "-") \/ At(s, 1, "+") THEN 2 ELSE 1
        b == Span(s, a, IsDigit)
        c == IF At(s, b, ".") THEN Span(s, b + 1, IsDigit) ELSE b
        d == IF c <= Len(s) /\ Char(s, c) \in {"e", "E"}
             THEN IF c + 1 <= Len(s) /\ Char(s, c + 1) \in {"+", "-"} THEN c + 2 ELSE c + 1
             ELSE c
    IN  /\ c - a >= 2 \/ (c - a = 1 /\ ~At(s, a, "."))
        /\ IF d > c THEN d <= Len(s) /\ Span(s, d, IsDigit) = Len(s) + 1
           ELSE c = Len(s) + 1

RECURSIVE IntOf(_)
IntOf(s) ==
    IF s = "" THEN 0
    ELSE IF Char(s, 1) = "-" THEN -IntOf(Rest(s, 2))
    ELSE IF Char(s, 1) = "+" THEN IntOf(Rest(s, 2))
    ELSE IntOf(SubSeq(s, 1, Len(s) - 1)) * 10 + Position(Char(s, Len(s)), "0123456789") - 1

_parse_value(text) ==
    LET value == strip(text)
    IN  IF lower(value) \in {"true", "yes"} THEN PyBool(TRUE)
        ELSE IF lower(value) \in {"false", "no"} THEN PyBool(FALSE)
        ELSE IF In(".", value) /\ FloatText(value) THEN PyFloat(value)
        ELSE IF ~In(".", value) /\ IntText(value) THEN PyInt(IntOf(value))
        ELSE IF startswith(value, "\"") /\ endswith(value, "\"")
             THEN PyStr(SubSeq(value, 2, Len(value) - 1))
        ELSE IF startswith(value, "'") /\ endswith(value, "'")
             THEN PyStr(SubSeq(value, 2, Len(value) - 1))
        ELSE PyStr(value)

\* _normalize_structure: data.copy() raises AttributeError for a value without
\* copy(), and assigning a missing key into a list raises TypeError.
standard_keys == <<"technologies", "use_case", "priorities", "analysis_type", "format">>

NormalizeRaises(data) ==
    IF data.kind \notin {"dict", "list"} THEN "AttributeError"
    ELSE IF data.kind = "list"
            /\ \E k \in DOMAIN standard_keys :
                   \A i \in DOMAIN data.items :
                       data.items[i] # "\"" \o standard_keys[k] \o "\""
         THEN "TypeError"
    ELSE "none"

RECURSIVE WithDefaults(_, _, _)
WithDefaults(items, defaults, k) ==
    IF k > Len(standard_keys) THEN items
    ELSE WithDefaults(IF Has(items, standard_keys[k]) THEN items
                      ELSE Append(items, <<standard_keys[k],
                                           Get(defaults, standard_keys[k], PyStr(""))>>),
                      defaults, k + 1)

\* The value _normalize_structure returns when nothing raises.
_normalize_structure(self, data) ==
    IF data.kind = "list" THEN data
    ELSE PyDict(WithDefaults(data.items,
             << <<"technologies", PyList(<<>>)>>, <<"use_case", PyStr("general")>>,
                <<"priorities", PyList(<<>>)>>, <<"analysis_type", PyStr("comparison")>>,
                <<"format", PyStr(IF self.detected_format # <<>> /\ self.detected_format[1] # ""
                                  THEN self.detected_format[1] ELSE "unknown")>> >>, 1))

\* _parse_json: the decoded data, to be normalized, or the error dictionary of
\* the except clause, which is returned as it is.
JsonData(self) ==
    IF _is_json(self)
    THEN [raised |-> "none", normalize |-> TRUE, result |-> json_loads(self.raw_input)]
    ELSE [raised |-> "none", normalize |-> FALSE,
          result |-> PyDict(<< <<"error", PyStr("Invalid JSON")>>,
                               <<"raw", PyStr(self.raw_input)>> >>)]

\* The loop of _parse_yaml over the remaining lines.  current_section is None
\* (the empty tuple) or a 1-tuple; in_list says that current_list is not None,
\* and then result[current_section] is that list.
RECURSIVE YamlLoop(_, _, _, _)
YamlLoop(lines, result, current_section, in_list) ==
    IF lines = <<>> THEN [raised |-> "none", result |-> result]
    ELSE
    LET stripped == strip(lines[1])
        colon == CHOOSE i \in 1..Len(stripped) :
                     Char(stripped, i) = ":" /\ \A k \in 1..(i - 1) : Char(stripped, k) # ":"
        key == strip(SubSeq(stripped, 1, colon - 1))
        value == strip(Rest(stripped, colon + 1))
        in_section == current_section # <<>> /\ current_section[1] # ""
        section == Get(result, current_section[1], PyDict(<<>>))
    IN  IF stripped = "" \/ startswith(stripped, "#")
        THEN YamlLoop(Tail(lines), result, current_section, in_list)
        ELSE IF In(":", stripped)
        THEN IF value = ""
             THEN YamlLoop(Tail(lines), Put(result, key, PyDict(<<>>)), <<key>>, FALSE)
             ELSE IF in_section
             THEN IF section.kind = "list"
                  THEN [raised |-> "TypeError", result |-> result]
                  ELSE YamlLoop(Tail(lines),
                                Put(result, current_section[1],
                                    PyDict(Put(section.items, key, _parse_value(value)))),
                                current_section, in_list)
             ELSE YamlLoop(Tail(lines), Put(result, key, _parse_value(value)),
                           current_section, in_list)
        ELSE IF startswith(stripped, "-") /\ in_section
        THEN YamlLoop(Tail(lines),
                      Put(result, current_section[1],
                          PyList((IF in_list THEN section.items ELSE <<>>)
                                 \o <<_parse_value(strip(Rest(stripped, 2)))>>)),
                      current_section, TRUE)
        ELSE YamlLoop(Tail(lines), result, current_section, in_list)

\* re.findall and re.sub of the URL pattern from position i on.
RECURSIVE FindUrls(_, _)
FindUrls(s, i) ==
    IF i > Len(s) THEN <<>>
    ELSE IF UrlAt(s, i)
    THEN <<SubSeq(s, i, Span(s, i, LAMBDA c : ~IsSpace(c)) - 1)>>
         \o FindUrls(s, Span(s, i, LAMBDA c : ~IsSpace(c)))
    ELSE FindUrls(s, i + 1)

RECURSIVE RemoveUrls(_, _)
RemoveUrls(s, i) ==
    IF i > Len(s) THEN ""
    ELSE IF UrlAt(s, i) THEN RemoveUrls(s, Span(s, i, LAMBDA c : ~IsSpace(c)))
    ELSE Char(s, i) \o RemoveUrls(s, i + 1)

\* _parse_urls before _normalize_structure
UrlData(self) ==
    LET urls == FindUrls(self.raw_input, 1)
        github_urls == SelectSeq(urls, LAMBDA u : In("github.com", u))
        npm_urls == SelectSeq(urls, LAMBDA u : In("npmjs.com", u) \/ In("npm.io", u))
        other_urls == SelectSeq(urls, LAMBDA u : ~In("github.com", u)
                                                 /\ ~In("npmjs.com", u) /\ ~In("npm.io", u))
    IN  PyDict(<< <<"format", PyStr("url")>>,
                  <<"urls", PyDict(<< <<"github", StrList(github_urls)>>,
                                      <<"npm", StrList(npm_urls)>>,
                                      <<"other", StrList(other_urls)>> >>)>>,
                  <<"context", PyStr(strip(RemoveUrls(self.raw_input, 1)))>> >>)

tech_keywords ==
    <<"react", "vue", "angular", "svelte", "next.js", "nuxt.js", "node.js", "python",
      "java", "go", "rust", "ruby", "postgresql", "postgres", "mysql", "mongodb", "redis",
      "aws", "azure", "gcp", "google cloud", "docker", "kubernetes", "k8s", "express",
      "fastapi", "django", "flask", "spring boot">>

RECURSIVE Unique(_, _)
Unique(list, found) ==
    IF list = <<>> THEN found
    ELSE Unique(Tail(list),
                IF \E i \in DOMAIN found : found[i] = list[1] THEN found
                ELSE Append(found, list[1]))

_extract_technologies(text) ==
    LET hits == SelectSeq(tech_keywords, LAMBDA tech : In(tech, text))
        normalized ==
            [i \in DOMAIN hits |->
                Get(<< <<"postgres", "PostgreSQL">>, <<"next.js", "Next.js">>,
                       <<"nuxt.js", "Nuxt.js">>, <<"node.js", "Node.js">>,
                       <<"k8s", "Kubernetes">>, <<"gcp", "Google Cloud Platform">> >>,
                    hits[i], title(hits[i]))]
    IN  IF hits = <<>> THEN <<"Unknown">> ELSE Unique(normalized, <<>>)

\* The value of the first keyword of the table found in the text, else default.
FirstKeyword(table, text, default) ==
    LET hits == SelectSeq(table, LAMBDA entry : In(entry[1], text))
    IN  IF hits = <<>> THEN default ELSE hits[1][2]

_extract_use_case(text) ==
    FirstKeyword(<< <<"real-time", "Real-time application">>,
                    <<"collaboration", "Collaboration platform">>,
                    <<"saas", "SaaS application">>,
                    <<"dashboard", "Dashboard application">>,
                    <<"api", "API-heavy application">>,
                    <<"data-intensive", "Data-intensive application">>,
                    <<"e-commerce", "E-commerce platform">>,
                    <<"enterprise", "Enterprise application">> >>,
                 text, "General purpose application")

_extract_priorities(text) ==
    LET hits == SelectSeq(<< <<"performance", "Performance">>,
                             <<"scalability", "Scalability">>,
                             <<"developer experience", "Developer experience">>,
                             <<"ecosystem", "Ecosystem">>,
                             <<"learning curve", "Learning curve">>,
                             <<"cost", "Cost">>, <<"security", "Security">>,
                             <<"compliance", "Compliance">> >>,
                          LAMBDA entry : In(entry[1], text))
    IN  IF hits = <<>> THEN <<"Developer experience", "Performance">>
        ELSE [i \in DOMAIN hits |-> hits[i][2]]

_detect_analysis_type(text) ==
    FirstKeyword(<< <<"migration", "migration_analysis">>,
                    <<"migrate", "migration_analysis">>, <<"tco", "tco_analysis">>,
                    <<"total cost", "tco_analysis">>, <<"security", "security_analysis">>,
                    <<"compliance", "security_analysis">>, <<"compare", "comparison">>,
                    <<"vs", "comparison">>, <<"evaluate", "evaluation">> >>,
                 text, "comparison")

\* _parse_text before _normalize_structure
TextData(self) ==
    PyDict(<< <<"format", PyStr("text")>>,
              <<"technologies", StrList(_extract_technologies(lower(self.raw_input)))>>,
              <<"use_case", PyStr(_extract_use_case(lower(self.raw_input)))>>,
              <<"priorities", StrList(_extract_priorities(lower(self.raw_input)))>>,
              <<"analysis_type", PyStr(_detect_analysis_type(lower(self.raw_input)))>>,
              <<"raw_text", PyStr(self.raw_input)>> >>)

\* What the _parse_* method of the detected format computes before its
\* return statement, for an object whose detected_format is set.
ParsedData(self) ==
    CASE self.detected_format[1] = "json" -> JsonData(self)
      [] self.detected_format[1] = "yaml" ->
             LET loop == YamlLoop(split(self.raw_input, "\n"), <<>>, <<>>, FALSE)
             IN  [raised |-> loop.raised, normalize |-> TRUE, result |-> PyDict(loop.result)]
      [] self.detected_format[1] = "url" ->
             [raised |-> "none", normalize |-> TRUE, result |-> UrlData(self)]
      [] OTHER -> [raised |-> "none", normalize |-> TRUE, result |-> TextData(self)]

\* The exception that leaves parse, or "none"; parsed is ParsedData(self).
ParseRaises(parsed) ==
    IF parsed.raised # "none" THEN parsed.raised
    ELSE IF ~parsed.normalize THEN "none"
    ELSE NormalizeRaises(parsed.result)

\* The value parse returns when nothing raises; parsed is ParsedData(self).
parse(self, parsed) ==
    IF parsed.normalize THEN _normalize_structure(self, parsed.result)
    ELSE parsed.result

get_format_info(self) ==
    [detected_format |-> self.detected_format,
     input_length |-> Len(self.raw_input),
     line_count |-> Len(split(self.raw_input, "\n")),
     parsing_successful |-> self.parsed_data # <<>>]

(***************************************************************************)
(* TDDWorkflow                                                             *)
(*                                                                         *)
(* TDDPhase and WorkflowState members are their values.  A method is an    *)
(* operator from the object to [self |-> the object afterwards, result |-> *)
(* the value returned].                                                    *)
(***************************************************************************)
\* TDDWorkflow.__init__
TDDWorkflow == [current_phase |-> "red", state |-> "initial", history |-> <<>>]

start_cycle(self, requirement) ==
    [self |-> [self EXCEPT !.current_phase = "red", !.state = "initial"],
     result |->
         [phase |-> "RED",
          instruction |-> "Write a failing test for the requirement",
          requirement |-> requirement,
          checklist |-> <<"Write test that describes desired behavior",
                          "Test should fail when run (no implementation yet)",
                          "Test name clearly describes what is being tested",
                          "Test has clear arrange-act-assert structure">>,
          tips |-> <<"Focus on behavior, not implementation",
                     "Start with simplest test case",
                     "Test should be specific and focused">>]]

Validation(valid, message_valid, message_invalid) ==
    [valid |-> valid, message |-> IF valid THEN message_valid ELSE message_invalid]

AllValid(validations) == \A i \in DOMAIN validations : validations[i].valid

\* test_result is None (the empty tuple) or a 1-tuple holding a dictionary.
RedValidations(test_code, test_result) ==
    << Validation(~(test_code = "" \/ Len(strip(test_code)) < 10),
                  "Test code provided", "No test code provided"),
       Validation(\E keyword \in {"assert", "expect", "should"} :
                      In(keyword, lower(test_code)),
                  "Contains assertions", "Missing assertions") >>
    \o (IF test_result # <<>> /\ test_result[1] # <<>>
        THEN << Validation(Get(test_result[1], "status", "") = "failed",
                           "Test fails as expected", "Test should fail in RED phase") >>
        ELSE <<>>)

\* Variant of validate_red_phase that advances whatever the validations say.
validate_red_phase_unchecked(self, test_code, test_result) ==
    [self |-> [self EXCEPT !.state = "test_failing", !.current_phase = "green"],
     result |-> [phase_complete |-> TRUE, next_phase |-> "GREEN",
                 validations |-> RedValidations(test_code, test_result),
                 instruction |-> "Write minimal code to make the test pass"]]

validate_red_phase(self, test_code, test_result) ==
    IF AllValid(RedValidations(test_code, test_result))
    THEN [self |-> [self EXCEPT !.state = "test_failing", !.current_phase = "green"],
          result |-> [phase_complete |-> TRUE, next_phase |-> "GREEN",
                      validations |-> RedValidations(test_code, test_result),
                      instruction |-> "Write minimal code to make the test pass"]]
    ELSE [self |-> self,
          result |-> [phase_complete |-> FALSE, current_phase |-> "RED",
                      validations |-> RedValidations(test_code, test_result),
                      instruction |-> "Address validation issues before proceeding"]]

_check_minimal_implementation(code) ==
    LET lines == split(code, "\n")
        non_empty_lines == SelectSeq(lines, LAMBDA line :
                               strip(line) # "" /\ ~startswith(strip(line), "#"))
    IN  /\ Len(non_empty_lines) <= 50
        /\ \A i \in DOMAIN lines :
               lstrip(lines[i]) # "" =>
                   (Len(lines[i]) - Len(lstrip(lines[i]))) \div 4 <= 3

\* len(re.findall(r'\b\d+\b', code)): runs of digits with no word character
\* on either side.
MagicNumbers(code) ==
    Cardinality({i \in 1..Len(code) :
        /\ IsDigit(Char(code, i))
        /\ i = 1 \/ ~IsWordChar(Char(code, i - 1))
        /\ LET e == Span(code, i, IsDigit)
           IN  e = Len(code) + 1 \/ ~IsWordChar(Char(code, e))})

\* re.findall(r'\(([^)]+)\)', code) from position i on.
RECURSIVE ParamLists(_, _)
ParamLists(code, i) ==
    IF i > Len(code) THEN <<>>
    ELSE LET e == Span(code, i + 1, LAMBDA c : c # ")")
         IN  IF Char(code, i) = "(" /\ e > i + 1 /\ e <= Len(code)
             THEN <<SubSeq(code, i + 1, e - 1)>> \o ParamLists(code, e + 1)
             ELSE ParamLists(code, i + 1)

Count(s, c) == Cardinality({i \in 1..Len(s) : Char(s, i) = c})

_suggest_refactorings(code) ==
    LET lines == split(code, "\n")
        duplicates == {strip(lines[i]) : i \in {j \in DOMAIN lines :
                          /\ Len(strip(lines[j])) > 10
                          /\ Cardinality({k \in DOMAIN lines :
                                 strip(lines[k]) = strip(lines[j])}) > 2}}
        suggestions ==
            (IF Len(lines) > 30
             THEN <<"Consider breaking long function into smaller functions">> ELSE <<>>)
            \o (IF duplicates # {}
                THEN <<"Found " \o ToString(Cardinality(duplicates))
                       \o " duplicated code patterns - consider extraction">>
                ELSE <<>>)
            \o (IF MagicNumbers(code) > 5
                THEN <<"Consider extracting magic numbers to named constants">> ELSE <<>>)
            \o (IF (In("def ", code) \/ In("function", code))
                   /\ \E i \in DOMAIN ParamLists(code, 1) :
                          Count(ParamLists(code, 1)[i], ",") > 3
                THEN <<"Consider using parameter object for functions with many parameters">>
                ELSE <<>>)
    IN  IF suggestions = <<>> THEN <<"Code looks clean - no obvious refactorings needed">>
        ELSE suggestions

GreenValidations(implementation_code, test_result) ==
    << Validation(~(implementation_code = "" \/ Len(strip(implementation_code)) < 5),
                  "Implementation code provided", "No implementation code provided"),
       Validation(Get(test_result, "status", "") = "passed",
                  "Test passes", "Test still failing"),
       Validation(_check_minimal_implementation(implementation_code),
                  "Implementation appears minimal",
                  "Implementation may be over-engineered") >>

validate_green_phase(self, implementation_code, test_result) ==
    IF AllValid(GreenValidations(implementation_code, test_result))
    THEN [self |-> [self EXCEPT !.state = "test_passing", !.current_phase = "refactor"],
          result |-> [phase_complete |-> TRUE, next_phase |-> "REFACTOR",
                      validations |-> GreenValidations(implementation_code, test_result),
                      instruction |-> "Refactor code while keeping tests green",
                      refactoring_suggestions |->
                          _suggest_refactorings(implementation_code)]]
    ELSE [self |-> self,
          result |-> [phase_complete |-> FALSE, current_phase |-> "GREEN",
                      validations |-> GreenValidations(implementation_code, test_result),
                      instruction |-> "Make the test pass before refactoring"]]

\* Every path of _check_quality_improvement returns True.
_check_quality_improvement(original, refactored) == TRUE

RefactorValidations(original_code, refactored_code, test_result) ==
    << Validation(Get(test_result, "status", "") = "passed",
                  "Tests still pass after refactoring", "Tests broken by refactoring"),
       Validation(original_code # refactored_code,
                  "Code was refactored", "No refactoring applied (optional)") >>
    \o (IF original_code # refactored_code
        THEN << Validation(_check_quality_improvement(original_code, refactored_code),
                           "Code quality improved",
                           "Consider further refactoring for better quality") >>
        ELSE <<>>)

validate_refactor_phase(self, original_code, refactored_code, test_result) ==
    IF AllValid(RefactorValidations(original_code, refactored_code, test_result))
    THEN [self |-> [self EXCEPT !.state = "code_refactored",
                                !.history = Append(self.history,
                                                   [cycle_complete |-> TRUE,
                                                    final_state |-> "code_refactored"])],
          result |-> [phase_complete |-> TRUE, cycle_complete |-> TRUE,
                      validations |->
                          RefactorValidations(original_code, refactored_code, test_result),
                      message |-> "TDD cycle complete! Ready for next requirement.",
                      next_steps |-> <<"Commit your changes",
                                       "Start next TDD cycle with new requirement",
                                       "Or add more test cases for current feature">>]]
    ELSE [self |-> self,
          result |-> [phase_complete |-> FALSE, current_phase |-> "REFACTOR",
                      validations |->
                          RefactorValidations(original_code, refactored_code, test_result),
                      instruction |-> "Ensure tests still pass after refactoring"]]

generate_workflow_summary(self) ==
    join("\n",
         <<"# TDD Workflow Summary\n",
           "Current Phase: " \o upper(self.current_phase),
           "Current State: " \o title(replace(self.state, "_", " ")),
           "Completed Cycles: " \o ToString(Len(self.history)) \o "\n",
           "## TDD Cycle Steps:\n",
           "1. **RED**: Write a failing test",
           "   - Test describes desired behavior",
           "   - Test fails (no implementation)\n",
           "2. **GREEN**: Make the test pass",
           "   - Write minimal code to pass test",
           "   - All tests should pass\n",
           "3. **REFACTOR**: Improve the code",
           "   - Clean up implementation",
           "   - Tests still pass",
           "   - Code is more maintainable\n">>)

\* phase is None (the empty tuple) or a 1-tuple; the goal and the number of
\* steps, mistakes and tips of the guidance stand for the literal lists.
get_phase_guidance(self, phase) ==
    LET target_phase == IF phase # <<>> THEN phase[1] ELSE self.current_phase
    IN  CASE target_phase = "red" ->
                 [phase |-> "RED", goal |-> "Write a failing test",
                  steps |-> 5, common_mistakes |-> 3, tips |-> 3]
          [] target_phase = "green" ->
                 [phase |-> "GREEN", goal |-> "Make the test pass with minimal code",
                  steps |-> 4, common_mistakes |-> 3, tips |-> 3]
          [] OTHER ->
                 [phase |-> "REFACTOR",
                  goal |-> "Improve code quality while keeping tests green",
                  steps |-> 4, common_mistakes |-> 3, tips |-> 4]

(***************************************************************************)
(* The state machines: one specification per component.                    *)
(***************************************************************************)
CmpIdle ==
    /\ comparison_data = [use_case |-> <<>>, weights |-> <<>>]
    /\ use_case = <<>>
    /\ weights = <<>>
    /\ tech_data_list = <<>>
    /\ results = NoResult

TcoIdle ==
    /\ tco_data = NoTcoData
    /\ tco_self = TCOCalculator(NoTcoData)
    /\ tco_result = NoTcoResult

MigIdle ==
    /\ migration_data = NoMigrationData
    /\ mig_self = MigrationAnalyzer(NoMigrationData)
    /\ mig_result = NoMigResult

SecIdle ==
    /\ security_data = NoSecurityData
    /\ sec_self = SecurityAssessor(NoSecurityData)
    /\ sec_result = NoSecResult

EcoIdle ==
    /\ ecosystem_data = NoEcosystemData
    /\ eco_self = EcosystemAnalyzer(NoEcosystemData)
    /\ eco_result = NoEcoResult

NoEnvironment == [CLAUDE_DESKTOP |-> <<>>, isatty |-> FALSE]
NoFile == [name |-> "", text |-> ""]

RepIdle ==
    /\ report_data = <<>>
    /\ output_context = <<>>
    /\ rep_env = NoEnvironment
    /\ rep_now = 0
    /\ rep_self = ReportGenerator(<<>>, <<>>, NoEnvironment)
    /\ rep_sections = <<>>
    /\ rep_result = ""
    /\ rep_file = NoFile

NoFmtResult == [kind |-> "none"]

FmtIdle ==
    /\ fmt_input = ""
    /\ fmt_self = FormatDetector("")
    /\ fmt_result = NoFmtResult

NoCycle == [red |-> FALSE, green |-> FALSE]
NoTddResult == [kind |-> "none"]

TddIdle ==
    /\ tdd_self = TDDWorkflow
    /\ tdd_cycle = NoCycle
    /\ tdd_result = NoTddResult

ExtIdle == RepIdle /\ FmtIdle /\ TddIdle

InitComparator ==
    /\ pc = "cmp_new"
    /\ raised = "none"
    /\ comparison_data \in ComparisonInputs
    /\ use_case = <<>>
    /\ weights = <<>>
    /\ tech_data_list \in TechLists
    /\ results = NoResult
    /\ TcoIdle
    /\ MigIdle
    /\ SecIdle
    /\ EcoIdle
    /\ ExtIdle

\* StackComparator.__init__
Construct ==
    /\ pc = "cmp_new"
    /\ use_case' = comparison_data.use_case
    /\ weights' = _normalize_weights(comparison_data.weights)
    /\ pc' = "cmp_ready"
    /\ UNCHANGED <<raised, comparison_data, tech_data_list, results, tcoVars, migVars, secVars, ecoVars, extVars>>

\* StackComparator.compare_technologies
CompareTechnologies ==
    /\ pc = "cmp_ready"
    /\ pc' = "cmp_done"
    /\ IF DecisionFactorsRaise(ScoreAll(weights, use_case, tech_data_list, <<>>))
       THEN raised' = "ValueError" /\ UNCHANGED results
       ELSE /\ results' = compare_technologies(weights, use_case, tech_data_list)
            /\ UNCHANGED raised
    /\ UNCHANGED <<comparison_data, use_case, weights, tech_data_list, tcoVars, migVars, secVars, ecoVars, extVars>>

NextComparator == Construct \/ CompareTechnologies

SpecComparator == InitComparator /\ [][NextComparator]_vars

InitTCO ==
    /\ pc = "tco_new"
    /\ raised = "none"
    /\ CmpIdle
    /\ MigIdle
    /\ SecIdle
    /\ EcoIdle
    /\ ExtIdle
    /\ tco_data \in TcoInputs
    /\ tco_self = TCOCalculator(NoTcoData)
    /\ tco_result = NoTcoResult

\* TCOCalculator.__init__
ConstructTCO ==
    /\ pc = "tco_new"
    /\ tco_self' = TCOCalculator(tco_data)
    /\ pc' = "tco_ready"
    /\ UNCHANGED <<raised, tco_data, tco_result, cmpVars, migVars, secVars, ecoVars, extVars>>

TcoConstructed == pc \in {"tco_ready", "tco_operational", "tco_scaling", "tco_total"}

\* TCOCalculator.calculate_operational_costs
CalculateOperationalCosts ==
    /\ TcoConstructed
    /\ pc' = "tco_operational"
    /\ tco_result' = [kind |-> "operational",
                      operational_costs |-> calculate_operational_costs(tco_self)]
    /\ raised' = "none"
    /\ UNCHANGED <<tco_data, tco_self, cmpVars, migVars, secVars, ecoVars, extVars>>

\* TCOCalculator.calculate_scaling_costs
CalculateScalingCosts ==
    /\ TcoConstructed
    /\ pc' = "tco_scaling"
    /\ tco_result' = [kind |-> "scaling",
                      scaling_analysis |-> calculate_scaling_costs(tco_self)]
    /\ raised' = "none"
    /\ UNCHANGED <<tco_data, tco_self, cmpVars, migVars, secVars, ecoVars, extVars>>

\* TCOCalculator.calculate_total_tco
CalculateTotalTco ==
    /\ TcoConstructed
    /\ pc' = "tco_total"
    /\ IF ProductivityRaises(tco_self) \/ AverageRaises(tco_self)
       THEN raised' = "ZeroDivisionError" /\ tco_result' = NoTcoResult
       ELSE raised' = "none" /\ tco_result' = calculate_total_tco(tco_self)
    /\ UNCHANGED <<tco_data, tco_self, cmpVars, migVars, secVars, ecoVars, extVars>>

NextTCO ==
    \/ ConstructTCO
    \/ CalculateOperationalCosts
    \/ CalculateScalingCosts
    \/ CalculateTotalTco

SpecTCO == InitTCO /\ [][NextTCO]_vars

InitMigration ==
    /\ pc = "mig_new"
    /\ raised = "none"
    /\ CmpIdle
    /\ TcoIdle
    /\ SecIdle
    /\ EcoIdle
    /\ ExtIdle
    /\ migration_data \in MigrationInputs
    /\ mig_self = MigrationAnalyzer(NoMigrationData)
    /\ mig_result = NoMigResult

\* MigrationAnalyzer.__init__
ConstructMigration ==
    /\ pc = "mig_new"
    /\ mig_self' = MigrationAnalyzer(migration_data)
    /\ pc' = "mig_ready"
    /\ UNCHANGED <<raised, migration_data, mig_result, cmpVars, tcoVars, secVars, ecoVars, extVars>>

MigConstructed ==
    pc \in {"mig_ready", "mig_complexity", "mig_effort", "mig_risks", "mig_plan"}

\* MigrationAnalyzer.calculate_complexity_score
CalculateComplexityScore ==
    /\ MigConstructed
    /\ pc' = "mig_complexity"
    /\ mig_result' = [kind |-> "complexity", scores |-> calculate_complexity_score(mig_self)]
    /\ raised' = "none"
    /\ UNCHANGED <<migration_data, mig_self, cmpVars, tcoVars, secVars, ecoVars, extVars>>

\* MigrationAnalyzer.estimate_effort
EstimateEffort ==
    /\ MigConstructed
    /\ pc' = "mig_effort"
    /\ IF EffortRaises(mig_self)
       THEN raised' = "ZeroDivisionError" /\ mig_result' = NoMigResult
       ELSE raised' = "none" /\ mig_result' = estimate_effort(mig_self)
    /\ UNCHANGED <<migration_data, mig_self, cmpVars, tcoVars, secVars, ecoVars, extVars>>

\* MigrationAnalyzer.assess_risks
AssessRisks ==
    /\ MigConstructed
    /\ pc' = "mig_risks"
    /\ mig_result' = [kind |-> "risks", risks |-> assess_risks(mig_self)]
    /\ raised' = "none"
    /\ UNCHANGED <<migration_data, mig_self, cmpVars, tcoVars, secVars, ecoVars, extVars>>

\* MigrationAnalyzer.generate_migration_plan
GenerateMigrationPlan ==
    /\ MigConstructed
    /\ pc' = "mig_plan"
    /\ IF EffortRaises(mig_self)
       THEN raised' = "ZeroDivisionError" /\ mig_result' = NoMigResult
       ELSE raised' = "none" /\ mig_result' = generate_migration_plan(mig_self)
    /\ UNCHANGED <<migration_data, mig_self, cmpVars, tcoVars, secVars, ecoVars, extVars>>

NextMigration ==
    \/ ConstructMigration
    \/ CalculateComplexityScore
    \/ EstimateEffort
    \/ AssessRisks
    \/ GenerateMigrationPlan

SpecMigration == InitMigration /\ [][NextMigration]_vars

\* The cost and migration computations together.
SpecArithmetic ==
    (InitTCO \/ InitMigration) /\ [][NextTCO \/ NextMigration]_vars

InitSecurity ==
    /\ pc = "sec_new"
    /\ raised = "none"
    /\ CmpIdle
    /\ TcoIdle
    /\ MigIdle
    /\ EcoIdle
    /\ ExtIdle
    /\ security_data \in SecurityInputs
    /\ sec_self = SecurityAssessor(NoSecurityData)
    /\ sec_result = NoSecResult

\* SecurityAssessor.__init__
ConstructSecurity ==
    /\ pc = "sec_new"
    /\ sec_self' = SecurityAssessor(security_data)
    /\ pc' = "sec_ready"
    /\ UNCHANGED <<raised, security_data, sec_result, cmpVars, tcoVars, migVars, ecoVars, extVars>>

SecConstructed ==
    pc \in {"sec_ready", "sec_score", "sec_compliance", "sec_vulnerabilities", "sec_report"}

\* SecurityAssessor.calculate_security_score
CalculateSecurityScore ==
    /\ SecConstructed
    /\ pc' = "sec_score"
    /\ sec_result' = [kind |-> "score", security_score |-> calculate_security_score(sec_self)]
    /\ raised' = "none"
    /\ UNCHANGED <<security_data, sec_self, cmpVars, tcoVars, migVars, ecoVars, extVars>>

\* SecurityAssessor.assess_compliance
AssessCompliance ==
    /\ SecConstructed
    /\ pc' = "sec_compliance"
    /\ sec_result' = [kind |-> "compliance",
                      compliance_assessment |-> assess_compliance(sec_self)]
    /\ raised' = "none"
    /\ UNCHANGED <<security_data, sec_self, cmpVars, tcoVars, migVars, ecoVars, extVars>>

\* SecurityAssessor.identify_vulnerabilities
IdentifyVulnerabilities ==
    /\ SecConstructed
    /\ pc' = "sec_vulnerabilities"
    /\ sec_result' = [kind |-> "vulnerabilities",
                      vulnerabilities |-> identify_vulnerabilities(sec_self)]
    /\ raised' = "none"
    /\ UNCHANGED <<security_data, sec_self, cmpVars, tcoVars, migVars, ecoVars, extVars>>

\* SecurityAssessor.generate_security_report
GenerateSecurityReport ==
    /\ SecConstructed
    /\ pc' = "sec_report"
    /\ IF RecommendationsRaise(assess_compliance(sec_self))
       THEN raised' = "KeyError" /\ sec_result' = NoSecResult
       ELSE raised' = "none" /\ sec_result' = generate_security_report(sec_self)
    /\ UNCHANGED <<security_data, sec_self, cmpVars, tcoVars, migVars, ecoVars, extVars>>

NextSecurity ==
    \/ ConstructSecurity
    \/ CalculateSecurityScore
    \/ AssessCompliance
    \/ IdentifyVulnerabilities
    \/ GenerateSecurityReport

SpecSecurity == InitSecurity /\ [][NextSecurity]_vars

InitEcosystem ==
    /\ pc = "eco_new"
    /\ raised = "none"
    /\ CmpIdle
    /\ TcoIdle
    /\ MigIdle
    /\ SecIdle
    /\ ExtIdle
    /\ ecosystem_data \in EcosystemInputs
    /\ eco_self = EcosystemAnalyzer(NoEcosystemData)
    /\ eco_result = NoEcoResult

\* EcosystemAnalyzer.__init__
ConstructEcosystem ==
    /\ pc = "eco_new"
    /\ eco_self' = EcosystemAnalyzer(ecosystem_data)
    /\ pc' = "eco_ready"
    /\ UNCHANGED <<raised, ecosystem_data, eco_result, cmpVars, tcoVars, migVars, secVars, extVars>>

EcoConstructed == pc \in {"eco_ready", "eco_health", "eco_viability"}

\* EcosystemAnalyzer.calculate_health_score
CalculateHealthScore ==
    /\ EcoConstructed
    /\ pc' = "eco_health"
    /\ IF VersionRaises(eco_self)
       THEN raised' = "ValueError" /\ eco_result' = NoEcoResult
       ELSE raised' = "none"
            /\ eco_result' = [kind |-> "health", scores |-> calculate_health_score(eco_self)]
    /\ UNCHANGED <<ecosystem_data, eco_self, cmpVars, tcoVars, migVars, secVars, extVars>>

\* EcosystemAnalyzer.assess_viability
AssessViability ==
    /\ EcoConstructed
    /\ pc' = "eco_viability"
    /\ IF VersionRaises(eco_self)
       THEN raised' = "ValueError" /\ eco_result' = NoEcoResult
       ELSE raised' = "none" /\ eco_result' = assess_viability(eco_self)
    /\ UNCHANGED <<ecosystem_data, eco_self, cmpVars, tcoVars, migVars, secVars, extVars>>

NextEcosystem ==
    \/ ConstructEcosystem
    \/ CalculateHealthScore
    \/ AssessViability

SpecEcosystem == InitEcosystem /\ [][NextEcosystem]_vars

(***************************************************************************)
(* Inputs of the report generator.  The ecosystem artifact is computed by  *)
(* the analyzer; the other artifacts are written out.                      *)
(***************************************************************************)
ReportHeader ==
    << <<"technologies", <<"React", "Vue">> >>,
       <<"use_case", "Web dashboard">>,
       <<"recommendation",
         << <<"text", "Choose React">>, <<"confidence", R(82)>>,
            <<"pros", <<"Large ecosystem", "Strong typing support", "Mature tooling",
                        "Many developers">> >>,
            <<"cons", <<"Steeper learning curve">> >> >> >>,
       <<"decision_factors",
         << << <<"category", "developer_experience">>, <<"best_performer", "Vue">> >>,
            << <<"category", "performance">>, <<"best_performer", "React">> >> >> >> >>

MatrixArtifact ==
    << << <<"category", "performance">>, <<"weight", "15.0%">>,
          <<"scores", << <<"React", "85.0">>, <<"Vue", "80.0">> >> >> >>,
       << <<"category", "developer_experience">>, <<"weight", "20.0%">>,
          <<"scores", << <<"React", "78.0">> >> >> >> >>

\* What calculate_total_tco returns for React with a team of 3 over 3 years
\* and a monthly hosting cost of 1000: the entries the report reads.
TcoArtifact ==
    [kind |-> "total_tco", technology |-> "React", timeline_years |-> 3,
     initial_costs |-> [training |-> R(12500), total_initial |-> R(12500)],
     operational_costs |->
         [hosting |-> <<R(12000), R(14400), R(17280)>>,
          maintenance |-> <<R(72000), R(72000), R(72000)>>,
          total_yearly |-> <<R(84000), R(86400), R(89280)>>],
     total_tco |-> R(483480),
     average_yearly_cost |-> R(161160)]

\* What generate_tco_summary returns for the same calculator: the amounts are
\* formatted text.
TcoSummaryArtifact ==
    [kind |-> "tco_summary", technology |-> "React", total_tco |-> "$483,480.00",
     net_tco |-> "$483,480.00", average_yearly |-> "$161,160.00",
     initial_investment |-> "$12,500.00"]

ReportEcosystemInput ==
    [technology |-> "React",
     github |-> << <<"stars", R(12000)>>, <<"forks", R(900)>>,
                   <<"contributors", R(120)>>, <<"commits_last_month", R(30)>>,
                   <<"avg_issue_response_hours", R(40)>>,
                   <<"issue_resolution_rate", Rat(9, 10)>>,
                   <<"releases_per_year", R(6)>>, <<"active_maintainers", R(4)>> >>,
     npm |-> <<>>,
     community |-> << <<"stackoverflow_questions", R(12000)>>,
                      <<"job_postings", R(400)>>, <<"tutorials_count", R(250)>>,
                      <<"forum_members", R(6000)>> >>,
     corporate_backing |-> << <<"type", "community_led">> >>]

\* The report of the ecosystem analyzer of the evaluation.
EcosystemArtifact == generate_ecosystem_report(eco_self)

\* The entries of a security report that the report reads.
SecurityArtifact ==
    [kind |-> "report", technology |-> "Express",
     security_score |-> [overall_security_score |-> Rat(5725, 100),
                         security_grade |-> "F"],
     compliance_assessment |->
         << <<"GDPR", [readiness_level |-> "Partial", readiness_percentage |-> R(60)]>>,
            <<"SOC2", [readiness_level |-> "Partial", readiness_percentage |-> R(60)]>> >>]

\* The entries of a migration plan that the report reads.
MigrationArtifact ==
    [kind |-> "plan", source_technology |-> "AngularJS", target_technology |-> "React",
     complexity_analysis |-> << <<"code_volume", R(7)>>,
                                <<"overall_complexity", Rat(64, 10)>> >>,
     effort_estimation |->
         [total_hours |-> R(984), total_person_months |-> Rat(615, 100),
          estimated_timeline |-> [calendar_months |-> Rat(1476, 433)]],
     recommended_approach |->
         [approach |-> "strangler_pattern",
          description |-> "Strangler pattern - gradually replace old system while running in parallel"]]

BenchmarkArtifact ==
    << <<"throughput", << <<"React", R(12000)>>, <<"Vue", R(9500)>> >> >>,
       <<"latency", << <<"React", R(45)>> >> >> >>

ArtifactNames ==
    <<"comparison_matrix", "tco_analysis", "ecosystem_health", "security_assessment",
      "migration_analysis", "performance_benchmarks">>

Artifact(name, shape) ==
    CASE shape = "empty" -> <<>>
      [] name = "comparison_matrix" -> MatrixArtifact
      [] name = "tco_analysis" ->
             IF shape = "summary" THEN TcoSummaryArtifact ELSE TcoArtifact
      [] name = "ecosystem_health" -> EcosystemArtifact
      [] name = "security_assessment" -> SecurityArtifact
      [] name = "migration_analysis" -> MigrationArtifact
      [] OTHER -> BenchmarkArtifact

ReportData(header, present, shape) ==
    LET names == SelectSeq(ArtifactNames, LAMBDA name : name \in present)
    IN  (IF header THEN ReportHeader ELSE <<>>)
        \o [i \in DOMAIN names |-> <<names[i], Artifact(names[i], shape)>>]

AllArtifacts == {ArtifactNames[i] : i \in DOMAIN ArtifactNames}

PresentSets ==
    {{}, AllArtifacts} \cup {{name} : name \in AllArtifacts}
    \cup {AllArtifacts \ {name} : name \in {"tco_analysis", "ecosystem_health"}}

ArtifactShapes == {"full", "empty", "summary"}

ContextArguments == { <<>>, <<"">>, <<"desktop">>, <<"cli">>, <<"html">> }

Environments == [CLAUDE_DESKTOP : { <<>>, <<"1">> }, isatty : BOOLEAN]

SectionRequests ==
    { <<>>,
      << <<"executive_summary", "comparison_matrix", "tco_analysis", "ecosystem_health",
           "security_assessment", "migration_analysis", "performance_benchmarks",
           "appendix">> >>,
      << <<"ecosystem_health", "migration_analysis">> >> }

MaxTicks == 1

InitReport ==
    /\ pc = "rep_new"
    /\ raised = "none"
    /\ CmpIdle
    /\ FmtIdle
    /\ TddIdle
    /\ TcoIdle
    /\ MigIdle
    /\ SecIdle
    \* the analyzer whose report is the ecosystem artifact
    /\ ecosystem_data = ReportEcosystemInput
    /\ eco_self = EcosystemAnalyzer(ecosystem_data)
    /\ eco_result = NoEcoResult
    /\ \E header \in BOOLEAN, present \in PresentSets, shape \in ArtifactShapes :
           /\ shape = "summary" => "tco_analysis" \in present
           /\ shape = "empty" => present # {}
           /\ report_data = ReportData(header, present, shape)
           /\ output_context \in ContextArguments
           /\ rep_env \in Environments
           \* every context and environment for the empty and the complete
           \* report, the two renderings on a terminal for the others
           /\ \/ (present \in {{}, AllArtifacts} /\ shape = "full")
              \/ /\ output_context \in { <<"desktop">>, <<"cli">> }
                 /\ rep_env = [CLAUDE_DESKTOP |-> <<>>, isatty |-> TRUE]
    /\ rep_now = 599
    /\ rep_self = ReportGenerator(<<>>, <<>>, NoEnvironment)
    /\ rep_sections = <<>>
    /\ rep_result = ""
    /\ rep_file = NoFile

RepOthers == <<cmpVars, tcoVars, migVars, secVars, ecoVars, fmtVars, tddVars>>

\* ReportGenerator.__init__
ConstructReport ==
    /\ pc = "rep_new"
    /\ rep_self' = ReportGenerator(report_data, output_context, rep_env)
    /\ pc' = "rep_ready"
    /\ UNCHANGED <<raised, report_data, output_context, rep_env, rep_now, rep_sections,
                   rep_result, rep_file, RepOthers>>

RepConstructed == pc \in {"rep_ready", "rep_summary", "rep_full", "rep_export"}

\* The clock moves on between two calls.
Tick ==
    /\ RepConstructed
    /\ rep_now < 599 + MaxTicks
    /\ rep_now' = rep_now + 1
    /\ UNCHANGED <<pc, raised, report_data, output_context, rep_env, rep_self,
                   rep_sections, rep_result, rep_file, RepOthers>>

\* ReportGenerator.generate_executive_summary
GenerateExecutiveSummary ==
    /\ RepConstructed
    /\ pc' = "rep_summary"
    /\ rep_result' = generate_executive_summary(rep_self)
    /\ raised' = "none"
    /\ UNCHANGED <<report_data, output_context, rep_env, rep_now, rep_self, rep_sections,
                   rep_file, RepOthers>>

\* The TCO section formats total_tco with ':,.2f', which rejects text.
SectionRaises(self, section_name) ==
    /\ section_name = "tco_analysis"
    /\ ~IsEmpty(Get(self.report_data, "tco_analysis", <<>>))
    /\ RGet(Get(self.report_data, "tco_analysis", <<>>), "kind", "") = "tco_summary"

\* The exception that leaves generate_full_report, or "none".
FullReportRaises(self, sections) ==
    LET names == IF sections = <<>> THEN _get_available_sections(self) ELSE sections[1]
    IN  IF \E i \in DOMAIN names : SectionRaises(self, names[i]) THEN "ValueError"
        ELSE "none"

\* ReportGenerator.generate_full_report
GenerateFullReport ==
    /\ RepConstructed
    /\ \E sections \in SectionRequests :
           /\ rep_sections' = sections
           /\ raised' = FullReportRaises(rep_self, sections)
           /\ IF FullReportRaises(rep_self, sections) # "none"
              THEN UNCHANGED rep_result
              ELSE rep_result' = generate_full_report(rep_self, sections, rep_now)
    /\ pc' = "rep_full"
    /\ UNCHANGED <<report_data, output_context, rep_env, rep_now, rep_self, rep_file,
                   RepOthers>>

\* ReportGenerator.export_to_file
ExportToFile ==
    /\ RepConstructed
    /\ \E filename \in {"report.md"}, sections \in { <<>> } :
           /\ rep_sections' = sections
           /\ raised' = FullReportRaises(rep_self, sections)
           /\ IF FullReportRaises(rep_self, sections) # "none"
              THEN UNCHANGED <<rep_result, rep_file>>
              ELSE /\ rep_file' = [name |-> filename,
                                   text |-> generate_full_report(rep_self, sections,
                                                                 rep_now)]
                   /\ rep_result' = filename
    /\ pc' = "rep_export"
    /\ UNCHANGED <<report_data, output_context, rep_env, rep_now, rep_self, RepOthers>>

NextReport ==
    \/ ConstructReport
    \/ Tick
    \/ GenerateExecutiveSummary
    \/ GenerateFullReport
    \/ ExportToFile

SpecReport == InitReport /\ [][NextReport]_vars

(***************************************************************************)
(* Inputs of the format detector.                                          *)
(***************************************************************************)
FormatInputs ==
    { "{\"technologies\": [\"React\", \"Vue\"], \"use_case\": \"web\"}",
      "  {\"a\": 1, \"format\": {\"b\": [true, null]}}  ",
      "{}",
      "123",
      "-5",
      "\"react\"",
      "null",
      "true",
      "[1, 2]",
      "[]",
      "[\"technologies\", \"use_case\", \"priorities\", \"analysis_type\", \"format\"]",
      "{\"a\": }",
      "01",
      "technologies:\n  - React\n  - Vue\nuse_case: web app\npriorities:\n  - performance",
      "techs:\n  - react\n  name: x",
      "debug: true\ncount: 42\nratio: 2.5\nname: 'x'\nflag: No\nlabel: \"y\"",
      "# settings\nserver:\n  port: 8080\n  host: example.org\n\nmode: fast",
      "- item one\n- item two",
      "my key:",
      "my key:\nother key:",
      ":",
      "a: 1\nb",
      "a: 1\nb: 2\nc",
      "https://github.com/facebook/react",
      "Compare https://github.com/facebook/react and https://www.npmjs.com/package/vue please",
      "see http://example.org/docs",
      "check http:// now",
      "I need to compare React and Vue for a real-time dashboard, performance matters",
      "migrate from postgres to mongodb",
      "What is the total cost of ownership of AWS for a startup?",
      "" }

InitFormat ==
    /\ pc = "fmt_new"
    /\ raised = "none"
    /\ CmpIdle
    /\ TcoIdle
    /\ MigIdle
    /\ SecIdle
    /\ EcoIdle
    /\ RepIdle
    /\ TddIdle
    /\ fmt_input \in FormatInputs
    /\ fmt_self = FormatDetector("")
    /\ fmt_result = NoFmtResult

FmtOthers == <<cmpVars, tcoVars, migVars, secVars, ecoVars, repVars, tddVars>>

\* FormatDetector.__init__
ConstructFormatDetector ==
    /\ pc = "fmt_new"
    /\ fmt_self' = FormatDetector(fmt_input)
    /\ pc' = "fmt_ready"
    /\ UNCHANGED <<raised, fmt_input, fmt_result, FmtOthers>>

FmtConstructed == pc \in {"fmt_ready", "fmt_detected", "fmt_parsed", "fmt_info"}

\* FormatDetector.detect_format
DetectFormat ==
    /\ FmtConstructed
    /\ pc' = "fmt_detected"
    /\ \E format \in {detect_format(fmt_self)} :
           /\ fmt_self' = [fmt_self EXCEPT !.detected_format = <<format>>]
           /\ fmt_result' = format
    /\ raised' = "none"
    /\ UNCHANGED <<fmt_input, FmtOthers>>

\* The object after the first statement of parse.
Detected(self) ==
    IF self.detected_format = <<>>
    THEN [self EXCEPT !.detected_format = <<detect_format(self)>>]
    ELSE self

\* FormatDetector.parse
Parse ==
    /\ FmtConstructed
    /\ pc' = "fmt_parsed"
    /\ \E self \in {Detected(fmt_self)} :
       \E parsed \in {ParsedData(self)} :
           /\ raised' = ParseRaises(parsed)
           /\ IF ParseRaises(parsed) # "none"
              THEN /\ fmt_self' = self
                   /\ fmt_result' = NoFmtResult
              ELSE /\ fmt_self' = [self EXCEPT !.parsed_data = <<parse(self, parsed)>>]
                   /\ fmt_result' = parse(self, parsed)
    /\ UNCHANGED <<fmt_input, FmtOthers>>

\* FormatDetector.get_format_info
GetFormatInfo ==
    /\ FmtConstructed
    /\ pc' = "fmt_info"
    /\ fmt_result' = get_format_info(fmt_self)
    /\ raised' = "none"
    /\ UNCHANGED <<fmt_input, fmt_self, FmtOthers>>

NextFormat ==
    \/ ConstructFormatDetector
    \/ DetectFormat
    \/ Parse
    \/ GetFormatInfo

SpecFormat == InitFormat /\ [][NextFormat]_vars

(***************************************************************************)
(* Inputs of the TDD workflow.                                             *)
(***************************************************************************)
MaxCycles == 2

Requirements == {"add two numbers"}

TestCodes ==
    { "",
      "assert x",
      "def test_add():\n    assert add(1, 2) == 3",
      "def test_add():\n    add(1, 2)",
      "it('adds', () => { expect(add(1, 2)).toBe(3) })" }

\* test_result arguments: a dictionary as a sequence of pairs.
TestResults ==
    { <<>>,
      << <<"status", "failed">> >>,
      << <<"status", "passed">> >>,
      << <<"status", "error">>, <<"message", "NameError">> >> }

\* The optional test_result of validate_red_phase: None or a dictionary.
OptionalTestResults == {<<>>} \cup {<<r>> : r \in TestResults}

ImplementationCodes ==
    { "",
      "x=1",
      "def add(a, b):\n    return a + b",
      "def add(a, b):\n    if a:\n        if b:\n            if a > b:\n                return 3\n    return a + b",
      join("\n", [i \in 1..51 |-> "x = 1"]) }

RefactoredCodes ==
    { "def add(a, b):\n    return a + b",
      "def add(first, second):\n    return first + second" }

Phases == {<<>>, <<"red">>, <<"green">>, <<"refactor">>}

InitTDD ==
    /\ pc = "tdd_new"
    /\ raised = "none"
    /\ CmpIdle
    /\ TcoIdle
    /\ MigIdle
    /\ SecIdle
    /\ EcoIdle
    /\ RepIdle
    /\ FmtIdle
    /\ TddIdle

TddOthers == <<cmpVars, tcoVars, migVars, secVars, ecoVars, repVars, fmtVars>>

\* TDDWorkflow.__init__
ConstructTDDWorkflow ==
    /\ pc = "tdd_new"
    /\ pc' = "tdd_ready"
    /\ tdd_self' = TDDWorkflow
    /\ tdd_cycle' = NoCycle
    /\ UNCHANGED <<raised, tdd_result, TddOthers>>

TddConstructed == pc # "tdd_new"

\* TDDWorkflow.start_cycle
StartCycle ==
    /\ TddConstructed
    /\ \E requirement \in Requirements :
           /\ tdd_self' = start_cycle(tdd_self, requirement).self
           /\ tdd_result' = [kind |-> "start",
                             value |-> start_cycle(tdd_self, requirement).result]
    /\ tdd_cycle' = NoCycle
    /\ pc' = "tdd_started"
    /\ UNCHANGED <<raised, TddOthers>>

\* TDDWorkflow.validate_red_phase
ValidateRedPhase ==
    /\ TddConstructed
    /\ \E test_code \in TestCodes, test_result \in OptionalTestResults :
           /\ tdd_self' = validate_red_phase(tdd_self, test_code, test_result).self
           /\ tdd_result' =
                  [kind |-> "red",
                   value |-> validate_red_phase(tdd_self, test_code, test_result).result]
    /\ tdd_cycle' = [tdd_cycle EXCEPT !.red = @ \/ tdd_result'.value.phase_complete]
    /\ pc' = "tdd_red"
    /\ UNCHANGED <<raised, TddOthers>>

\* TDDWorkflow.validate_green_phase
ValidateGreenPhase ==
    /\ TddConstructed
    /\ \E implementation_code \in ImplementationCodes, test_result \in TestResults :
           /\ tdd_self' =
                  validate_green_phase(tdd_self, implementation_code, test_result).self
           /\ tdd_result' =
                  [kind |-> "green",
                   value |-> validate_green_phase(tdd_self, implementation_code,
                                                  test_result).result]
    /\ tdd_cycle' = [tdd_cycle EXCEPT !.green = @ \/ tdd_result'.value.phase_complete]
    /\ pc' = "tdd_green"
    /\ UNCHANGED <<raised, TddOthers>>

\* TDDWorkflow.validate_refactor_phase
ValidateRefactorPhase ==
    /\ TddConstructed
    /\ Len(tdd_self.history) < MaxCycles
    /\ \E original_code \in RefactoredCodes, refactored_code \in RefactoredCodes,
          test_result \in TestResults :
           /\ tdd_self' = validate_refactor_phase(tdd_self, original_code,
                                                  refactored_code, test_result).self
           /\ tdd_result' =
                  [kind |-> "refactor",
                   value |-> validate_refactor_phase(tdd_self, original_code,
                                                     refactored_code, test_result).result]
    /\ pc' = "tdd_refactor"
    /\ UNCHANGED <<raised, tdd_cycle, TddOthers>>

\* TDDWorkflow.generate_workflow_summary
GenerateWorkflowSummary ==
    /\ TddConstructed
    /\ tdd_result' = [kind |-> "summary", value |-> generate_workflow_summary(tdd_self)]
    /\ pc' = "tdd_summary"
    /\ UNCHANGED <<raised, tdd_self, tdd_cycle, TddOthers>>

\* TDDWorkflow.get_phase_guidance
GetPhaseGuidance ==
    /\ TddConstructed
    /\ \E phase \in Phases :
           tdd_result' = [kind |-> "guidance", value |-> get_phase_guidance(tdd_self, phase)]
    /\ pc' = "tdd_guidance"
    /\ UNCHANGED <<raised, tdd_self, tdd_cycle, TddOthers>>

NextTDD ==
    \/ ConstructTDDWorkflow
    \/ StartCycle
    \/ ValidateRedPhase
    \/ ValidateGreenPhase
    \/ ValidateRefactorPhase
    \/ GenerateWorkflowSummary
    \/ GetPhaseGuidance

SpecTDD == InitTDD /\ [][NextTDD]_vars

(***************************************************************************)
(* Claims about StackComparator.                                           *)
(***************************************************************************)
CmpReturned == pc = "cmp_done" /\ raised = "none"

Wt(T, i) == T[i][2].weighted_total

\* The merged (default, then overridden) weights, summed key by key.
MergedTotal(custom) ==
    LET ks == Keys(DEFAULT_WEIGHTS) \cup Keys(custom)
        val(k) == Get(custom, k, Get(DEFAULT_WEIGHTS, k, R(0)))
        RECURSIVE Tot(_)
        Tot(S) == IF S = {} THEN R(0)
                  ELSE LET k == CHOOSE x \in S : TRUE
                       IN  RAdd(val(k), Tot(S \ {k}))
    IN  Tot(ks)

\* C1: after construction the comparator's weights sum to 100; when the
\* merged weights sum to 0 they are DEFAULT_WEIGHTS, and with no overrides
\* they equal DEFAULT_WEIGHTS exactly.
C1_WeightsNormalized ==
    pc \in {"cmp_ready", "cmp_done"} =>
        /\ RSum(Values(weights)) = R(100)
        /\ MergedTotal(comparison_data.weights) = R(0) => weights = DEFAULT_WEIGHTS
        /\ comparison_data.weights = <<>> => weights = DEFAULT_WEIGHTS

C1_Witness ==
    /\ pc = "cmp_ready"
    /\ Has(weights, "security")
    /\ Get(weights, "performance", R(0)) = Rat(150, 7)
    /\ weights # DEFAULT_WEIGHTS

\* C2: compare_technologies returns a complete result without raising for
\* every technology list; for the empty list the recommendation is
\* "Insufficient data" with confidence 0.
C2_AlwaysReturns ==
    pc = "cmp_done" =>
        /\ raised = "none"
        /\ tech_data_list = <<>> =>
               /\ results.recommendation = "Insufficient data"
               /\ results.confidence = R(0)

\* The confidence bands as the specification words them.
ConfidenceBands(gap) ==
    IF RLt(gap, R(5)) THEN RAdd(R(40), RMul(R(2), gap))
    ELSE IF RLt(gap, R(15)) THEN RAdd(R(50), RMul(R(2), RSub(gap, R(5))))
    ELSE RAdd(R(70), RMin(RSub(gap, R(15)), R(30)))

MaxGapHalves == 100
GapGrid == {Rat(k, 2) : k \in 0..MaxGapHalves}

\* C5: confidence follows the three gap bands and is non-decreasing in the
\* gap between the top and runner-up weighted totals (80 and 72 give 56);
\* a single technology is recommended with confidence 100.
C5_Confidence ==
    CmpReturned =>
        LET T == results.technologies
        IN  /\ Len(T) = 1 =>
                  /\ results.recommendation = T[1][1]
                  /\ results.confidence = R(100)
            /\ Len(T) > 1 =>
                  \E i, j \in DOMAIN T :
                      /\ i # j
                      /\ \A k \in DOMAIN T : RLe(Wt(T, k), Wt(T, i))
                      /\ \A k \in DOMAIN T \ {i} : RLe(Wt(T, k), Wt(T, j))
                      /\ LET gap == RSub(Wt(T, i), Wt(T, j))
                         IN  /\ results.confidence = ConfidenceBands(gap)
                             /\ \A g \in GapGrid :
                                   /\ RLe(g, gap) =>
                                         RLe(confidence_of_gap(g), results.confidence)
                                   /\ RLe(gap, g) =>
                                         RLe(results.confidence, confidence_of_gap(g))
                             /\ (Wt(T, i) = R(80) /\ Wt(T, j) = R(72)) =>
                                   results.confidence = R(56)

C5_Witness ==
    /\ CmpReturned
    /\ Len(results.technologies) = 2
    /\ Wt(results.technologies, 1) = R(72)
    /\ Wt(results.technologies, 2) = R(80)
    /\ results.recommendation = "Vue"
    /\ results.confidence = R(56)

\* The technology data a scorecard was computed from: the last entry of the
\* list carrying the name.
DataOf(tech_name) ==
    LET nameOf(td) == IF td.named THEN td.name ELSE "Unknown"
        last == CHOOSE i \in DOMAIN tech_data_list :
                    /\ nameOf(tech_data_list[i]) = tech_name
                    /\ \A j \in DOMAIN tech_data_list :
                           nameOf(tech_data_list[j]) = tech_name => j <= i
    IN  tech_data_list[last]

\* C6: every adjusted category score of every technology lies in [0, 100],
\* whatever the raw score and the use-case multiplier; a missing raw score
\* counts as 50.
C6_ScoresClamped ==
    CmpReturned =>
        \A t \in DOMAIN results.technologies :
            LET card == results.technologies[t][2]
                data == DataOf(results.technologies[t][1])
            IN  /\ Keys(card.category_scores) = {FEATURE_CATEGORIES[c] : c \in 1..8}
                /\ \A c \in DOMAIN card.category_scores :
                      LET category == card.category_scores[c][1]
                          score == card.category_scores[c][2]
                      IN  /\ RLe(R(0), score) /\ RLe(score, R(100))
                          /\ ~Has(data.scores, category) =>
                                score = RMin(R(100),
                                    _adjust_for_use_case(use_case, category, R(50)))

C6_Witness ==
    /\ CmpReturned
    /\ Contains(use_case, "real-time")
    /\ \E t \in DOMAIN results.technologies :
          LET cs == results.technologies[t][2].category_scores
              data == DataOf(results.technologies[t][1])
          IN  /\ Get(data.scores, "performance", R(50)) = R(95)
              /\ Get(data.scores, "scalability", R(50)) = R(130)
              /\ Get(data.scores, "learning_curve", R(50)) = R(-20)
              /\ Get(cs, "performance", R(50)) = R(100)
              /\ Get(cs, "scalability", R(50)) = R(100)
              /\ Get(cs, "learning_curve", R(50)) = R(0)
              /\ Get(cs, "ecosystem", R(0)) = R(50)

\* C7: the recommended technology has the maximal weighted total, the
\* weighted total being the sum over the 8 categories of adjusted score
\* times normalized weight / 100.
C7_WinnerIsMaximal ==
    (CmpReturned /\ results.technologies # <<>>) =>
        LET T == results.technologies
        IN  /\ \E i \in DOMAIN T :
                  /\ T[i][1] = results.recommendation
                  /\ \A k \in DOMAIN T : RLe(Wt(T, k), Wt(T, i))
            /\ \A k \in DOMAIN T :
                  Wt(T, k) =
                      RSum([c \in 1..8 |->
                          RDiv(RMul(Get(T[k][2].category_scores, FEATURE_CATEGORIES[c], R(0)),
                                    Get(weights, FEATURE_CATEGORIES[c], R(0))),
                               R(100))])

C7_Witness ==
    /\ CmpReturned
    /\ Len(results.technologies) = 3
    /\ results.recommendation = results.technologies[3][1]
    /\ RLt(Wt(results.technologies, 1), Wt(results.technologies, 2))
    /\ RLt(Wt(results.technologies, 2), Wt(results.technologies, 3))

Perms(s) ==
    { [i \in DOMAIN s |-> s[p[i]]] :
        p \in { q \in [DOMAIN s -> DOMAIN s] :
                  \A a, b \in DOMAIN s : a # b => q[a] # q[b] } }

Cards(T) == {T[i] : i \in DOMAIN T}

DistinctNames(list) ==
    \A a, b \in DOMAIN list :
        a # b => (IF list[a].named THEN list[a].name ELSE "Unknown")
                  # (IF list[b].named THEN list[b].name ELSE "Unknown")

UniqueTop(T) ==
    \E i \in DOMAIN T : \A k \in DOMAIN T \ {i} : RLt(Wt(T, k), Wt(T, i))

C3_NoDivisionByZero ==
    /\ pc = "tco_total" => (raised = "none" /\ tco_result.kind = "total_tco")
    /\ pc = "mig_effort" => (raised = "none" /\ mig_result.kind = "effort")

IsKnownStandard(standard) == standard \in {"GDPR", "SOC2", "HIPAA", "PCI_DSS"}

\* C4: generate_security_report returns a complete report without raising
\* for every compliance_requirements list; a standard outside the four fixed
\* ones is reported with readiness 'Unknown' and score 0.
C4_ReportAlwaysReturns ==
    pc = "sec_report" =>
        /\ raised = "none"
        /\ sec_result.kind = "report"
        /\ \A i \in DOMAIN sec_self.compliance_requirements :
              LET standard == sec_self.compliance_requirements[i]
                  entry == Get(sec_result.compliance_assessment, standard, NoSecResult)
              IN  ~IsKnownStandard(standard) =>
                      (entry.readiness = "Unknown" /\ entry.score = 0)

\* The year-indexed series a TCOCalculator result holds.
OperationalSeries(op) ==
    <<op.licensing, op.hosting, op.support, op.maintenance, op.total_yearly>>

ScalingSeries(sc) ==
    <<sc.user_projections, sc.cost_per_user,
      sc.infrastructure_scaling.yearly_infrastructure_costs>>

\* C9: every year-indexed series produced by TCOCalculator (operational
\* licensing, hosting, support, maintenance, total_yearly; scaling
\* user_projections, cost_per_user, yearly_infrastructure_costs) has length
\* exactly timeline_years.
C9_SeriesLength ==
    LET requested == Opt(tco_data.timeline_years, 5)
        AllOfLength(series) == \A i \in DOMAIN series : Len(series[i]) = requested
    IN  /\ tco_result.kind = "operational" =>
              AllOfLength(OperationalSeries(tco_result.operational_costs))
        /\ tco_result.kind = "scaling" =>
              AllOfLength(ScalingSeries(tco_result.scaling_analysis))
        /\ tco_result.kind = "total_tco" =>
              /\ tco_result.timeline_years = requested
              /\ AllOfLength(OperationalSeries(tco_result.operational_costs))
              /\ AllOfLength(ScalingSeries(tco_result.scaling_analysis))

C9_Witness ==
    /\ pc = "tco_scaling"
    /\ tco_self.timeline_years = 3
    /\ tco_result.scaling_analysis.user_projections = <<20, 40, 80>>
    /\ Len(tco_result.scaling_analysis.cost_per_user) = 3

\* C10: for every year k in 1..timeline_years the hosting entry is
\* monthly_hosting * 12 * (1 + annual_growth_rate)^(k-1); monthly_hosting 1000,
\* growth 0.20 and 3 years give 12000, 14400, 17280.
C10_HostingSeries ==
    (pc = "tco_operational" /\ tco_result.kind = "operational") =>
        LET hosting == tco_result.operational_costs.hosting
            monthly == Get(tco_data.operational_costs, "monthly_hosting", R(1000))
            growth == Get(tco_data.scaling_params, "annual_growth_rate", Rat(1, 5))
        IN  /\ DOMAIN hosting = 1..Opt(tco_data.timeline_years, 5)
            /\ \A k \in DOMAIN hosting :
                  hosting[k] = IF k = 1 THEN RMul(monthly, R(12))
                               ELSE RMul(hosting[k - 1], RAdd(R(1), growth))
            /\ (monthly = R(1000) /\ growth = Rat(1, 5) /\ Len(hosting) = 3) =>
                  hosting = <<R(12000), R(14400), R(17280)>>

C10_Witness ==
    /\ pc = "tco_operational"
    /\ Get(tco_data.operational_costs, "monthly_hosting", R(0)) = R(1000)
    /\ Get(tco_data.scaling_params, "annual_growth_rate", R(0)) = Rat(1, 5)
    /\ tco_result.operational_costs.hosting = <<R(12000), R(14400), R(17280)>>

\* C11: calculate_total_tco returns total_tco = total_initial + the sum of
\* the yearly operational totals + total_hidden_costs and
\* net_tco_after_productivity = total_tco - the productivity value, each
\* yearly operational total being licensing + hosting + support +
\* maintenance of that year.
C11_TotalComposition ==
    (pc = "tco_total" /\ tco_result.kind = "total_tco") =>
        LET op == tco_result.operational_costs
            yearly == [k \in 1..tco_self.timeline_years |->
                          RAdd(RAdd(RAdd(op.licensing[k], op.hosting[k]), op.support[k]),
                               op.maintenance[k])]
        IN  /\ op.total_yearly = yearly
            /\ tco_result.total_tco =
                  RAdd(RAdd(tco_result.initial_costs.total_initial, RSum(yearly)),
                       tco_result.hidden_costs.total_hidden_costs)
            /\ tco_result.net_tco_after_productivity =
                  RSub(tco_result.total_tco,
                       tco_result.productivity_impact.five_year_productivity_value)

C11_Witness ==
    /\ pc = "tco_total"
    /\ tco_result.kind = "total_tco"
    /\ tco_self.timeline_years = 3
    /\ tco_result.productivity_impact.five_year_productivity_value # R(0)
    /\ tco_result.hidden_costs.total_hidden_costs # R(0)
    /\ tco_result.total_tco # tco_result.net_tco_after_productivity

\* C12: the vendor lock-in hidden cost is the migration cost that enters the
\* initial costs (0 when the key is missing) times the multiplier of the
\* risk tier: 0.1 for low, 0.3 for medium, 0.6 for high.
C12_LockInCost ==
    (pc = "tco_total" /\ tco_result.kind = "total_tco") =>
        LET tier == Get(tco_data.productivity_factors, "vendor_lock_in_risk", "low")
            multiplier == CASE tier = "low" -> Rat(1, 10)
                            [] tier = "medium" -> Rat(3, 10)
                            [] tier = "high" -> Rat(6, 10)
        IN  tier \in {"low", "medium", "high"} =>
                tco_result.hidden_costs.vendor_lock_in_risk =
                    RMul(tco_result.initial_costs.migration, multiplier)

\* C13: the migration plan recommends 'direct_migration' iff the overall
\* complexity is <= 3, 'phased_migration' iff it is > 3 and <= 6, and
\* 'strangler_pattern' otherwise.
C13_ApproachBands ==
    (pc = "mig_plan" /\ mig_result.kind = "plan") =>
        LET overall == Get(mig_result.complexity_analysis, "overall_complexity", R(0))
            approach == mig_result.recommended_approach.approach
        IN  /\ overall = Get(calculate_complexity_score(MigrationAnalyzer(migration_data)),
                             "overall_complexity", R(0))
            /\ approach = "direct_migration" <=> RLe(overall, R(3))
            /\ approach = "phased_migration" <=> (RLt(R(3), overall) /\ RLe(overall, R(6)))
            /\ approach = "strangler_pattern" <=> RLt(R(6), overall)

C13_Witness ==
    /\ pc = "mig_plan"
    /\ mig_result.kind = "plan"
    /\ Get(mig_result.complexity_analysis, "overall_complexity", R(0)) = R(3)
    /\ mig_result.recommended_approach.approach = "direct_migration"

FactorNames ==
    <<"code_volume", "architecture_changes", "data_migration", "api_compatibility",
      "dependency_changes", "testing_requirements">>

FactorWeights == <<Rat(20, 100), Rat(25, 100), Rat(20, 100), Rat(15, 100),
                   Rat(10, 100), Rat(10, 100)>>

\* C14: each of the six complexity factor scores lies in [1,10] and so does
\* the overall complexity, their .20/.25/.20/.15/.10/.10 weighted sum; a
\* 500 GB database with 'significant' schema changes and a required
\* transformation scores 7 + 3 + 2, clamped to 10.
C14_FactorsInRange ==
    (pc = "mig_complexity" /\ mig_result.kind = "complexity") =>
        LET scores == mig_result.scores
            InRange(x) == RLe(R(1), x) /\ RLe(x, R(10))
            overall == Get(scores, "overall_complexity", R(0))
            stats == migration_data.codebase_stats
        IN  /\ [i \in DOMAIN scores |-> scores[i][1]] = FactorNames \o <<"overall_complexity">>
            /\ \A i \in DOMAIN scores : InRange(scores[i][2])
            /\ overall = RSum([i \in DOMAIN FactorNames |->
                                  RMul(Get(scores, FactorNames[i], R(0)), FactorWeights[i])])
            /\ ( /\ Get(stats, "has_database", TRUE)
                 /\ Get(stats, "database_size_gb", R(10)) = R(500)
                 /\ Get(stats, "schema_changes_required", "minimal") = "significant"
                 /\ Get(stats, "data_transformation_required", FALSE) )
               => Get(scores, "data_migration", R(0)) = R(10)

C14_Witness ==
    /\ pc = "mig_complexity"
    /\ Get(migration_data.codebase_stats, "database_size_gb", R(10)) = R(500)
    /\ Get(migration_data.codebase_stats, "schema_changes_required", "") = "significant"
    /\ Get(migration_data.codebase_stats, "data_transformation_required", FALSE)
    /\ Get(mig_result.scores, "data_migration", R(0)) = R(10)

\* C15: assess_risks returns at least one risk in each of the categories
\* technical_risks, business_risks and team_risks, and every risk has a
\* severity and a mitigation.
C15_RiskPerCategory ==
    (pc = "mig_risks" /\ mig_result.kind = "risks") =>
        /\ [c \in DOMAIN mig_result.risks |-> mig_result.risks[c][1]] =
              <<"technical_risks", "business_risks", "team_risks">>
        /\ \A c \in DOMAIN mig_result.risks :
              LET list == mig_result.risks[c][2]
              IN  /\ Len(list) >= 1
                  /\ \A i \in DOMAIN list :
                        /\ {"risk", "severity", "mitigation"} \subseteq DOMAIN list[i]
                        /\ list[i].severity \in {"Low", "Medium", "High", "Critical"}
                        /\ list[i].mitigation # ""

C15_Witness ==
    /\ pc = "mig_risks"
    /\ Get(mig_self.team_info, "target_tech_experience", "low") = "high"
    /\ Len(Get(mig_result.risks, "team_risks", <<>>)) = 1
    /\ Get(mig_result.risks, "technical_risks", <<>>)[1].severity = "Low"
    /\ Len(Get(mig_result.risks, "business_risks", <<>>)) = 3

(***************************************************************************)
(* Claims about EcosystemAnalyzer.                                         *)
(***************************************************************************)
\* C16: every score calculate_health_score produces (github, npm,
\* community, corporate_backing, maintenance and the weighted
\* overall_health) lies in [0,100] for every metric input, negative and
\* out-of-range metrics included.
C16_HealthScoresClamped ==
    (pc = "eco_health" /\ eco_result.kind = "health") =>
        \A i \in DOMAIN eco_result.scores :
            /\ RLe(R(0), eco_result.scores[i][2])
            /\ RLe(eco_result.scores[i][2], R(100))

\* The five viability tiers, by their lower bounds 80, 65, 50, 35.
TierOf(overall_health) ==
    1 + Cardinality({t \in {35, 50, 65, 80} : RLe(R(t), overall_health)})

TierNames ==
    <<"Poor - High risk of abandonment",
      "Concerning - Significant viability risks",
      "Moderate - Viable but with notable risks",
      "Good - Solid viability with minor concerns",
      "Excellent - Strong long-term viability">>

\* Overall scores the recommendation of a result is compared against.
HealthGrid == {Rat(k, 2) : k \in -10..210}

\* C17 (as stated): the overall health falls in exactly one of the five
\* tiers, and two overall scores receive the same recommendation iff they
\* fall in the same tier.
C17_RecommendationPerTier ==
    (pc = "eco_viability" /\ eco_result.kind = "viability") =>
        /\ eco_result.overall_viability = TierNames[TierOf(eco_result.health_score)]
        /\ \A g \in HealthGrid :
              (_generate_viability_recommendation(g, <<>>) = eco_result.recommendation)
                  <=> (TierOf(g) = TierOf(eco_result.health_score))

\* C17 (amended): the overall health falls in exactly one of the five
\* tiers; scores of one tier receive the same recommendation, and scores of
\* different tiers receive different ones except that the two tiers below
\* 50 share a single recommendation.
C17_RecommendationPerBand ==
    (pc = "eco_viability" /\ eco_result.kind = "viability") =>
        /\ eco_result.overall_viability = TierNames[TierOf(eco_result.health_score)]
        /\ \A g \in HealthGrid :
              (_generate_viability_recommendation(g, <<>>) = eco_result.recommendation)
                  <=> \/ TierOf(g) = TierOf(eco_result.health_score)
                      \/ (TierOf(g) <= 2 /\ TierOf(eco_result.health_score) <= 2)

C17_Witness ==
    /\ pc = "eco_viability"
    /\ eco_result.kind = "viability"
    /\ eco_result.overall_viability = "Concerning - Significant viability risks"
    /\ eco_result.recommendation =
           "Not recommended - consider alternatives with stronger ecosystems"

Has1(list, text) == \E i \in DOMAIN list : list[i] = text

Occurrences(list, text) == Cardinality({i \in DOMAIN list : list[i] = text})

\* Each component with the risk and the strength item it contributes.
ViabilityItems ==
    << <<"maintenance_health", "Low maintenance activity - slow issue resolution",
         "Active maintenance with responsive issue resolution">>,
       <<"github_health", "Limited GitHub activity - smaller community",
         "Strong GitHub presence with active community">>,
       <<"corporate_backing", "Weak corporate backing - sustainability concerns",
         "Strong corporate backing ensures sustainability">>,
       <<"npm_health", "Low npm adoption - limited ecosystem",
         "High npm adoption with stable releases">>,
       <<"community_health", "Small community - limited resources and support",
         "Large, active community with extensive resources">> >>

\* C18 (as stated): each of the five components contributes a risk item iff
\* its score is below 50 and a strength item iff its score is at least 70,
\* at most one of each per component.
C18_RiskAndStrengthFlags ==
    (pc = "eco_viability" /\ eco_result.kind = "viability") =>
        LET health == calculate_health_score(eco_self)
        IN  \A c \in DOMAIN ViabilityItems :
                LET score == Get(health, ViabilityItems[c][1], R(0))
                IN  /\ Has1(eco_result.risks, ViabilityItems[c][2]) <=> RLt(score, R(50))
                    /\ Has1(eco_result.strengths, ViabilityItems[c][3]) <=> RLe(R(70), score)
                    /\ Occurrences(eco_result.risks, ViabilityItems[c][2]) <= 1
                    /\ Occurrences(eco_result.strengths, ViabilityItems[c][3]) <= 1

\* C18 (amended): a component contributes a risk item iff its score is
\* below 50, below 40 for corporate_backing, and a strength item iff its
\* score is at least 70, at most one of each per component and never both;
\* a list no component contributes to holds one placeholder item instead.
C18_RiskAndStrengthFlagsByComponent ==
    (pc = "eco_viability" /\ eco_result.kind = "viability") =>
        LET health == calculate_health_score(eco_self)
            RiskBound(name) == IF name = "corporate_backing" THEN R(40) ELSE R(50)
            ItemTexts(k) == {ViabilityItems[c][k] : c \in DOMAIN ViabilityItems}
        IN  /\ \A c \in DOMAIN ViabilityItems :
                  LET name == ViabilityItems[c][1]
                      score == Get(health, name, R(0))
                  IN  /\ Has1(eco_result.risks, ViabilityItems[c][2])
                            <=> RLt(score, RiskBound(name))
                      /\ Has1(eco_result.strengths, ViabilityItems[c][3])
                            <=> RLe(R(70), score)
                      /\ Occurrences(eco_result.risks, ViabilityItems[c][2]) <= 1
                      /\ Occurrences(eco_result.strengths, ViabilityItems[c][3]) <= 1
                      /\ ~(Has1(eco_result.risks, ViabilityItems[c][2])
                           /\ Has1(eco_result.strengths, ViabilityItems[c][3]))
            /\ \/ \A i \in DOMAIN eco_result.risks : eco_result.risks[i] \in ItemTexts(2)
               \/ eco_result.risks = <<"No significant risks identified">>
            /\ \/ \A i \in DOMAIN eco_result.strengths :
                     eco_result.strengths[i] \in ItemTexts(3)
               \/ eco_result.strengths = <<"Baseline viability maintained">>

C18_Witness ==
    /\ pc = "eco_viability"
    /\ eco_result.kind = "viability"
    /\ _score_corporate_backing(eco_self) = R(40)
    /\ ~Has1(eco_result.risks, "Weak corporate backing - sustainability concerns")
    /\ Has1(eco_result.risks, "Low npm adoption - limited ecosystem")
    /\ Has1(eco_result.strengths, "Active maintenance with responsive issue resolution")

(***************************************************************************)
(* Claims about SecurityAssessor scores and compliance.                    *)
(***************************************************************************)
\* Scores the grade bands are checked on: 0 to 100 in steps of one half.
GradeGrid == {Rat(k, 2) : k \in 0..200}

\* The grade bands as stated: A >= 90, 80 <= B < 90, 70 <= C < 80,
\* 60 <= D < 70, F < 60.
GradeBands(s) ==
    << <<"A", RLe(R(90), s)>>,
       <<"B", RLe(R(80), s) /\ RLt(s, R(90))>>,
       <<"C", RLe(R(70), s) /\ RLt(s, R(80))>>,
       <<"D", RLe(R(60), s) /\ RLt(s, R(70))>>,
       <<"F", RLt(s, R(60))>> >>

\* C19: overall_security_score, the .30/.25/.30/.15 blend of the
\* vulnerability, patch, feature and track-record scores, lies in [0,100],
\* and the grade bands partition [0,100]: every score gets exactly one
\* grade, the one whose band holds it.
C19_ScoreAndGrade ==
    (pc = "sec_score" /\ sec_result.kind = "score") =>
        LET r == sec_result.security_score
            GradeFits(s, grade) ==
                LET bands == GradeBands(s)
                IN  /\ Cardinality({b \in DOMAIN bands : bands[b][2]}) = 1
                    /\ \A b \in DOMAIN bands : bands[b][2] <=> (bands[b][1] = grade)
        IN  /\ r.overall_security_score =
                  RSum(<<RMul(r.vulnerability_score, Rat(30, 100)),
                         RMul(r.patch_responsiveness, Rat(25, 100)),
                         RMul(r.security_features_score, Rat(30, 100)),
                         RMul(r.track_record_score, Rat(15, 100))>>)
            /\ RLe(R(0), r.overall_security_score)
            /\ RLe(r.overall_security_score, R(100))
            /\ GradeFits(r.overall_security_score, r.security_grade)
            /\ \A s \in GradeGrid : GradeFits(s, _calculate_grade(s))

C19_Witness ==
    /\ pc = "sec_score"
    /\ sec_result.kind = "score"
    /\ sec_result.security_score.track_record_score = R(0)
    /\ sec_result.security_score.security_features_score = R(100)
    /\ sec_result.security_score.overall_security_score = Rat(155, 4)
    /\ sec_result.security_score.security_grade = "F"

\* The four fixed standards with the number of features each requires.
FixedStandards == << <<"GDPR", 5>>, <<"SOC2", 5>>, <<"HIPAA", 5>>, <<"PCI_DSS", 4>> >>

\* C20: for each of the four fixed standards readiness_percentage =
\* features_met / features_required x 100 over the standard's fixed
\* required-feature list, features_met + |missing_features| =
\* features_required, and the label is Ready iff pct >= 90, Mostly Ready iff
\* 70 <= pct < 90, Partial iff 50 <= pct < 70, Not Ready iff pct < 50.
C20_ComplianceReadiness ==
    (pc = "sec_compliance" /\ sec_result.kind = "compliance") =>
        \A i \in DOMAIN FixedStandards :
            LET standard == FixedStandards[i][1]
                required == Get(COMPLIANCE_STANDARDS, standard, <<>>)
                enabled == {j \in DOMAIN required :
                               Get(security_data.security_features, required[j], FALSE)}
                e == Get(sec_result.compliance_assessment, standard, NoSecResult)
                pct == e.readiness_percentage
            IN  Has(sec_result.compliance_assessment, standard) =>
                    /\ e.features_required = FixedStandards[i][2]
                    /\ e.features_required = Len(required)
                    /\ e.features_met = Cardinality(enabled)
                    /\ pct = Rat(100 * e.features_met, e.features_required)
                    /\ e.features_met + Len(e.missing_features) = e.features_required
                    /\ e.missing_features =
                          SelectSeq(required, LAMBDA f :
                              ~Get(security_data.security_features, f, FALSE))
                    /\ e.readiness_level = "Ready" <=> RLe(R(90), pct)
                    /\ e.readiness_level = "Mostly Ready"
                          <=> (RLe(R(70), pct) /\ RLt(pct, R(90)))
                    /\ e.readiness_level = "Partial"
                          <=> (RLe(R(50), pct) /\ RLt(pct, R(70)))
                    /\ e.readiness_level = "Not Ready" <=> RLt(pct, R(50))

C20_Witness ==
    /\ pc = "sec_compliance"
    /\ sec_result.kind = "compliance"
    /\ Has(sec_result.compliance_assessment, "GDPR")
    /\ LET e == Get(sec_result.compliance_assessment, "GDPR", NoSecResult)
       IN  /\ e.readiness_percentage = R(60)
           /\ e.readiness_level = "Partial"
           /\ e.missing_features = <<"data_portability", "audit_logging">>


(***************************************************************************)
(* Claims about the vulnerability analysis of SecurityAssessor             *)
(***************************************************************************)
MaxTrendCount == 4

\* Severity counts used to probe the trend bands: the current total ranges
\* over 0 .. 2 * MaxTrendCount and the 3-year total over 0 .. 8 * MaxTrendCount.
TrendCurrent(a, b) ==
    << <<"critical", R(a)>>, <<"high", R(0)>>, <<"medium", R(b)>>, <<"low", R(0)>> >>

TrendHistorical(h) ==
    << <<"critical", R(0)>>, <<"high", R(h)>>, <<"medium", R(0)>>, <<"low", R(0)>> >>

\* The trend of a current total c (an integer) against a 3-year total h:
\* c < 0.7 * h / 3 is 30 c < 7 h, and c < 1.2 * h / 3 is 30 c < 12 h.
TrendOf(c, h) ==
    IF 30 * c < 7 * h THEN "Improving - fewer vulnerabilities than historical average"
    ELSE IF 30 * c < 12 * h THEN "Stable - consistent with historical average"
    ELSE "Concerning - more vulnerabilities than historical average"

\* C21: the trend is 'Improving' iff the current 12-month total is below 70%
\* of the 3-year average (historical total / 3), 'Stable' iff it is at least
\* 70% and below 120% of that average, and 'Concerning' otherwise, for all
\* non-negative counts, the all-zero case included.
C21_VulnerabilityTrend ==
    /\ (pc = "sec_vulnerabilities" /\ sec_result.kind = "vulnerabilities"
        /\ RLe(R(0), sec_result.vulnerabilities.total_current)
        /\ RLe(R(0), sec_result.vulnerabilities.total_historical)) =>
           /\ sec_result.vulnerabilities.total_current.d = 1
           /\ sec_result.vulnerabilities.total_historical.d = 1
           /\ sec_result.vulnerabilities.trend =
                  TrendOf(sec_result.vulnerabilities.total_current.n,
                          sec_result.vulnerabilities.total_historical.n)
    /\ \A a \in 0..MaxTrendCount, b \in 0..MaxTrendCount, h \in 0..(8 * MaxTrendCount) :
           _analyze_vulnerability_trend(TrendCurrent(a, b), TrendHistorical(h))
               = TrendOf(a + b, h)

\* identify_vulnerabilities has returned for 11 current and 33 historical
\* vulnerabilities: 11 is between 7.7 and 13.2, so the trend is stable.
C21_Witness ==
    /\ pc = "sec_vulnerabilities"
    /\ sec_result.kind = "vulnerabilities"
    /\ sec_result.vulnerabilities.total_current = R(11)
    /\ sec_result.vulnerabilities.total_historical = R(33)
    /\ sec_result.vulnerabilities.trend = "Stable - consistent with historical average"

(***************************************************************************)
(* Claims about ReportGenerator.                                           *)
(***************************************************************************)
\* The first line of a section, by which its text is recognised in a report.
SectionHeading(section_name, context) ==
    CASE section_name = "comparison_matrix" ->
             IF context = "desktop" THEN "## Comparison Matrix\n"
             ELSE "COMPARISON MATRIX\n"
      [] section_name = "tco_analysis" -> "## Total Cost of Ownership Analysis\n"
      [] section_name = "ecosystem_health" -> "## Ecosystem Health Analysis\n"
      [] section_name = "security_assessment" -> "## Security & Compliance Assessment\n"
      [] section_name = "migration_analysis" -> "## Migration Path Analysis\n"
      [] OTHER -> "## Performance Benchmarks\n"

Emitted(section_name) ==
    In(SectionHeading(section_name, rep_self.output_context), rep_result)

Requested(section_name) ==
    IF rep_sections = <<>> THEN Has(rep_self.report_data, section_name)
    ELSE \E i \in DOMAIN rep_sections[1] : rep_sections[1][i] = section_name

Supplied(section_name) ==
    /\ Has(rep_self.report_data, section_name)
    /\ ~IsEmpty(Get(rep_self.report_data, section_name, <<>>))

\* The report data with one artifact taken out, or put in when it was absent.
Toggle(self, section_name) ==
    [self EXCEPT !.report_data =
        IF Has(self.report_data, section_name)
        THEN SelectSeq(self.report_data, LAMBDA item : item[1] # section_name)
        ELSE Append(self.report_data, <<section_name, Artifact(section_name, "full")>>)]

LongForm(text) == startswith(text, "# Technology Stack Evaluation Report\n")
FixedWidth(text) == startswith(text, Repeat("=", 80) \o "\nTECHNOLOGY STACK EVALUATION REPORT\n")

ContextSupplied == output_context # <<>> /\ output_context[1] # ""

C24_Deterministic ==
    [][(/\ pc = "rep_full" /\ raised = "none"
        /\ pc' = "rep_full" /\ raised' = "none"
        /\ ContextSupplied
        /\ rep_self' = rep_self
        /\ rep_sections' = rep_sections)
       => rep_result' = rep_result]_vars

\* C29: with the analyzer's report as the 'ecosystem_health' artifact, the
\* ecosystem section shows the analyzer's overall_health as the overall
\* health score.
C29_OverallHealthRendered ==
    (/\ pc = "rep_full" /\ raised = "none"
     /\ Emitted("ecosystem_health")
     /\ Get(rep_self.report_data, "ecosystem_health", <<>>) = EcosystemArtifact)
    => In("**Overall Health Score**: "
          \o FixedText(Get(EcosystemArtifact.health_scores, "overall_health", R(0)),
                       1, FALSE)
          \o "/100\n", rep_result)


(***************************************************************************)
(* Claims about FormatDetector.                                            *)
(***************************************************************************)
\* The line ends in a colon, white space after it aside.
EndsInColon(line) ==
    /\ rstrip(line) # ""
    /\ Char(rstrip(line), Len(rstrip(line))) = ":"

\* The format by the stated precedence: valid JSON, then more than half of
\* the lines being a key-value pair, a list item or a line with a trailing
\* colon, then the presence of a URL, then free text.
StatedFormat(self) ==
    LET lines == split(self.raw_input, "\n")
        matching == {i \in DOMAIN lines :
                        \/ YamlKeyValue(lines[i])
                        \/ YamlListItem(lines[i])
                        \/ EndsInColon(lines[i])}
    IN  IF _is_json(self) THEN "json"
        ELSE IF 2 * Cardinality(matching) > Len(lines) THEN "yaml"
        ELSE IF _contains_urls(self) THEN "url"
        ELSE "text"

\* C25: detect_format returns 'json' iff the trimmed input is valid JSON,
\* otherwise 'yaml' iff more than 50% of the lines match a key-value, list
\* item or trailing-colon pattern, otherwise 'url' iff the input contains an
\* http(s) URL, otherwise 'text'.
C25_StrictPrecedence ==
    pc = "fmt_detected" => fmt_result = StatedFormat(fmt_self)

\* C26: parse never raises and returns a dictionary for every input string.
C26_ParseReturnsDictionary ==
    pc = "fmt_parsed" => raised = "none" /\ fmt_result.kind = "dict"


(***************************************************************************)
(* Claims about the npm score's dependency points.                         *)
(***************************************************************************)
MaxDependencies == 60

\* The analyzer of a package of which only the dependency count is known.
WithDependencies(count) ==
    EcosystemAnalyzer([NoEcosystemData EXCEPT
                          !.npm = << <<"dependencies_count", R(count)>> >>])

\* The points awarded for the dependency count: the npm score less the
\* points of the other three metrics at their defaults (0, 5 and 5).
DependencyPoints(count) == RSub(_score_npm_health(WithDependencies(count)), R(10))

\* C27: the points awarded for dependencies_count lie in [0,20] and are
\* non-increasing in the count: a package never scores lower on npm health
\* than the same package with more dependencies.
C27_DependencyPointsMonotone ==
    (pc = "eco_health" /\ eco_result.kind = "health") =>
        /\ \A count \in 0..MaxDependencies :
               /\ RLe(R(0), DependencyPoints(count))
               /\ RLe(DependencyPoints(count), R(20))
               /\ RLe(DependencyPoints(count + 1), DependencyPoints(count))
        /\ eco_self.npm_data # <<>> =>
               \A count \in 0..MaxDependencies :
                   RLe(R(count), Get(eco_self.npm_data, "dependencies_count", R(50))) =>
                       RLe(Get(eco_result.scores, "npm_health", R(0)),
                           _score_npm_health(
                               [eco_self EXCEPT !.npm_data =
                                   Put(eco_self.npm_data, "dependencies_count", R(count))]))

(***************************************************************************)
(* Claims about the code volume factor.                                    *)
(***************************************************************************)
\* The code volume score as stated: the band of the lines of code, plus 2
\* for more than 500 components, plus 1 for more than 200, at most 10.
StatedCodeVolume(stats) ==
    LET lines_of_code == Get(stats, "lines_of_code", R(10000))
        num_components == Get(stats, "num_components", R(50))
        band ==
            IF RLt(lines_of_code, R(5000)) THEN R(2)
            ELSE IF RLt(lines_of_code, R(20000)) THEN R(4)
            ELSE IF RLt(lines_of_code, R(50000)) THEN R(6)
            ELSE IF RLt(lines_of_code, R(100000)) THEN R(8)
            ELSE R(10)
        adjustment ==
            IF RLt(R(500), num_components) THEN R(2)
            ELSE IF RLt(R(200), num_components) THEN R(1)
            ELSE R(0)
    IN  RMin(R(10), RAdd(band, adjustment))

\* C28: _score_code_volume adds 1 to the lines-of-code band score when
\* num_components is over 200 and 2 when it is over 500, capped at 10.
C28_ComponentAdjustment ==
    (pc = "mig_complexity" /\ mig_result.kind = "complexity") =>
        Get(mig_result.scores, "code_volume", R(0))
            = StatedCodeVolume(mig_self.codebase_stats)


(***************************************************************************)
(* Claims about TDDWorkflow.                                               *)
(***************************************************************************)
\* The step is a validation that did not complete its phase.
FailedValidation ==
    /\ tdd_result'.kind \in {"red", "green", "refactor"}
    /\ ~tdd_result'.value.phase_complete

\* C30: current_phase becomes GREEN only by a successful RED validation and
\* becomes REFACTOR only after GREEN was reached in the same cycle; a
\* completed cycle is appended to history, in state CODE_REFACTORED, only
\* after successful RED and GREEN validations since the latest start_cycle;
\* a failed validation leaves state, phase and history unchanged.
C30_RedGreenRefactorOrder ==
    [][/\ (tdd_self.current_phase # "green" /\ tdd_self'.current_phase = "green") =>
              /\ tdd_result'.kind = "red"
              /\ tdd_result'.value.phase_complete
       /\ (tdd_self.current_phase # "refactor" /\ tdd_self'.current_phase = "refactor") =>
              tdd_cycle.red
       /\ Len(tdd_self'.history) > Len(tdd_self.history) =>
              /\ tdd_cycle.red
              /\ tdd_cycle.green
              /\ tdd_self'.state = "code_refactored"
       /\ FailedValidation => tdd_self' = tdd_self]_vars

====
